---- MODULE Spec2Model ----
(***************************************************************************)
(* Model of the Laravel plugin's two reconstructors                        *)
(* (src/plugins/laravel/parser.py):                                         *)
(*   - parse_migrations / _parse_migration_file: the schema fold            *)
(*   - parse_routes / _parse_route_file / _parse_routes_with_groups         *)
(* Source text is modelled as a sequence of lexical items; every regular    *)
(* expression of the source is modelled by the items it matches and the     *)
(* groups it captures.                                                      *)
(***************************************************************************)
EXTENDS Integers, Sequences, FiniteSets, TLC

(***************************************************************************)
(* Generic helpers                                                          *)
(***************************************************************************)
RECURSIVE Flatten(_)
Flatten(ss) ==
    IF ss = <<>> THEN <<>> ELSE Head(ss) \o Flatten(Tail(ss))

Range(s) == { s[i] : i \in 1..Len(s) }

\* Python value None
None == "None"

\* Python str ordering, restricted to the names the model sorts
\* (table names and migration file names): position in Lexicon.
Lexicon ==
    << "2024_01_a.php", "2024_02_b.php", "2024_03_c.php",
       "posts", "todos", "users" >>

StrRank(s) == CHOOSE i \in 1..Len(Lexicon) : Lexicon[i] = s

StrLess(a, b) == StrRank(a) < StrRank(b)

(***************************************************************************)
(* Python dict (insertion ordered) as a sequence of [k, v] entries          *)
(***************************************************************************)
DictHas(d, k) == \E i \in 1..Len(d) : d[i].k = k

DictIdx(d, k) == CHOOSE i \in 1..Len(d) : d[i].k = k

DictGet(d, k) == d[DictIdx(d, k)].v

DictKeys(d) == [ i \in 1..Len(d) |-> d[i].k ]

\* d[k] = v : overwrite in place, or append a new key
DictSet(d, k, v) ==
    IF DictHas(d, k)
    THEN [ d EXCEPT ![DictIdx(d, k)] = [ k |-> k, v |-> v ] ]
    ELSE Append(d, [ k |-> k, v |-> v ])

\* d.setdefault(k, v)
DictSetDefault(d, k, v) ==
    IF DictHas(d, k) THEN d ELSE Append(d, [ k |-> k, v |-> v ])

\* d.pop(k, None)
DictPop(d, k) == SelectSeq(d, LAMBDA e : e.k # k)

(***************************************************************************)
(* Migration source text.                                                   *)
(* A statement of a block body is one `$table->m(...)...;` call:            *)
(*   m     the method name                                                  *)
(*   arg   shape of the argument list: "none" (), "str" ('n' ...),          *)
(*         "arr" (['n1', 'n2'])                                             *)
(*   n     the first argument when arg = "str"                              *)
(*   more  further arguments follow the first one                           *)
(*   ns    the listed names when arg = "arr"                                *)
(*   chain the fluent calls that follow, each [m, a], up to the `;`         *)
(***************************************************************************)
Call(m, n) ==
    [ m |-> m, arg |-> "str", n |-> n, more |-> FALSE, ns |-> <<>>, chain |-> <<>> ]

Call2(m, n) ==
    [ m |-> m, arg |-> "str", n |-> n, more |-> TRUE, ns |-> <<>>, chain |-> <<>> ]

Call0(m) ==
    [ m |-> m, arg |-> "none", n |-> "", more |-> FALSE, ns |-> <<>>, chain |-> <<>> ]

CallArr(m, ns) ==
    [ m |-> m, arg |-> "arr", n |-> "", more |-> FALSE, ns |-> ns, chain |-> <<>> ]

Chained(m, n, chain) ==
    [ m |-> m, arg |-> "str", n |-> n, more |-> FALSE, ns |-> <<>>, chain |-> chain ]

\* the operation dicts appended to ops
Op(action, name, type) ==
    [ action |-> action, name |-> name, type |-> type,
      references |-> None, on |-> None, on_delete |-> None, on_update |-> None ]

\* re.search(r"<m>\(\s*['\"](\w+)['\"]", chain): first chained call named m
ChainArg(chain, m) ==
    IF \E i \in 1..Len(chain) : chain[i].m = m
    THEN chain[CHOOSE i \in 1..Len(chain) :
                 /\ chain[i].m = m
                 /\ \A j \in 1..(i - 1) : chain[j].m # m].a
    ELSE None

IndexTypes == { "index", "unique", "primary", "foreign", "fullText", "spatialIndex" }

\* r'\$table->(\w+)\s*\(\s*[\'"](\w+)[\'"]' : any call whose first argument
\* is a quoted word; index-like methods are skipped
ScanTyped(s) ==
    IF s.arg = "str" /\ s.m \notin IndexTypes
    THEN << Op("add", s.n, s.m) >>
    ELSE <<>>

\* r'\$table->(id|bigIncrements|increments)\s*\(\s*[\'"]?(\w*)[\'"]?\s*\)'
ScanId(s) ==
    IF s.m \in { "id", "bigIncrements", "increments" }
    THEN IF s.arg = "none" THEN << Op("add", "id", s.m) >>
         ELSE IF s.arg = "str" /\ ~s.more THEN << Op("add", s.n, s.m) >>
         ELSE <<>>
    ELSE <<>>

\* 'timestamps()' in body
ScanTimestamps(body) ==
    IF \E i \in 1..Len(body) : body[i].m = "timestamps" /\ body[i].arg = "none"
    THEN << Op("add", "created_at", "timestamp"), Op("add", "updated_at", "timestamp") >>
    ELSE <<>>

\* 'softDeletes()' in body
ScanSoftDeletes(body) ==
    IF \E i \in 1..Len(body) : body[i].m = "softDeletes" /\ body[i].arg = "none"
    THEN << Op("add", "deleted_at", "timestamp") >>
    ELSE <<>>

\* r'\$table->foreignId\s*\(\s*[\'"](\w+)[\'"]\s*\)(?:->\w+\([^)]*\))*'
ScanForeignId(s) ==
    IF s.m = "foreignId" /\ s.arg = "str" /\ ~s.more
    THEN << Op("add", s.n, "foreignId") >>
    ELSE <<>>

\* r'\$table->(index|unique|primary)\s*\(\s*[\'"](\w+)[\'"]'
ScanIndex(s) ==
    IF s.m \in { "index", "unique", "primary" } /\ s.arg = "str"
    THEN << Op("add", s.n, s.m) >>
    ELSE <<>>

\* r'\$table->foreign\s*\(\s*[\'"](\w+)[\'"]\s*\)([^;]+);' : the chain must
\* be non-empty
ScanForeign(s) ==
    IF s.m = "foreign" /\ s.arg = "str" /\ ~s.more /\ s.chain # <<>>
    THEN << [ action |-> "add", name |-> s.n, type |-> "foreign",
              references |-> ChainArg(s.chain, "references"),
              on |-> ChainArg(s.chain, "on"),
              on_delete |-> ChainArg(s.chain, "onDelete"),
              on_update |-> ChainArg(s.chain, "onUpdate") ] >>
    ELSE <<>>

\* r'dropColumn\(\s*[\'"](\w+)[\'"]\s*\)'
ScanDrop(s) ==
    IF s.m = "dropColumn" /\ s.arg = "str" /\ ~s.more
    THEN << Op("drop", s.n, "drop") >>
    ELSE <<>>

\* r'dropColumn\(\s*\[\s*([^\]]+)\]\s*\)' then re.findall of the quoted names
ScanDropArr(s) ==
    IF s.m = "dropColumn" /\ s.arg = "arr" /\ s.ns # <<>>
    THEN [ i \in 1..Len(s.ns) |-> Op("drop", s.ns[i], "drop") ]
    ELSE <<>>

\* the ops list built for one block body: one pass per operation shape,
\* each pass in text order
BodyOps(body) ==
       Flatten([ i \in 1..Len(body) |-> ScanTyped(body[i]) ])
    \o Flatten([ i \in 1..Len(body) |-> ScanId(body[i]) ])
    \o ScanTimestamps(body)
    \o ScanSoftDeletes(body)
    \o Flatten([ i \in 1..Len(body) |-> ScanForeignId(body[i]) ])
    \o Flatten([ i \in 1..Len(body) |-> ScanIndex(body[i]) ])
    \o Flatten([ i \in 1..Len(body) |-> ScanForeign(body[i]) ])
    \o Flatten([ i \in 1..Len(body) |-> ScanDrop(body[i]) ])
    \o Flatten([ i \in 1..Len(body) |-> ScanDropArr(body[i]) ])

(***************************************************************************)
(* A migration document is a sequence of items in text order:               *)
(*   [tok |-> "up"]    the text `function up`                               *)
(*   [tok |-> "down"]  the text `function down`                             *)
(*   [tok |-> "block", kind, table, body]  Schema::create / Schema::table   *)
(***************************************************************************)
FnUp == [ tok |-> "up", kind |-> "", table |-> "", body |-> <<>> ]

FnDown == [ tok |-> "down", kind |-> "", table |-> "", body |-> <<>> ]

Block(kind, table, body) ==
    [ tok |-> "block", kind |-> kind, table |-> table, body |-> body ]

\* str.find(tok, start): index of the first item tok at or after start,
\* 0 for -1 (items are numbered from 1)
Find(content, tok, start) ==
    IF \E i \in start..Len(content) : content[i].tok = tok
    THEN CHOOSE i \in start..Len(content) :
            /\ content[i].tok = tok
            /\ \A j \in start..(i - 1) : content[j].tok # tok
    ELSE 0

\* lines 504-507: keep content[up_start:down_start] when both are found
ApplySection(content) ==
    LET up_start == Find(content, "up", 1)
        down_start == Find(content, "down", IF up_start # 0 THEN up_start ELSE 1)
    IN IF up_start # 0 /\ down_start # 0
       THEN SubSeq(content, up_start, down_start - 1)
       ELSE content

\* block_pattern.finditer(content): the blocks of the analysed text, in order
MatchedBlocks(content) ==
    SelectSeq(ApplySection(content), LAMBDA it : it.tok = "block")

(***************************************************************************)
(* sorted(...) / list.sort(key=...): stable, ascending by StrLess of key    *)
(***************************************************************************)
\* s sorted by the keys ks (ks[i] is the key of s[i])
SortedBy(s, ks) ==
    LET n == Len(s)
        before(j, i) ==
            \/ StrLess(ks[j], ks[i])
            \/ ks[j] = ks[i] /\ j < i
        pos(i) == Cardinality({ j \in 1..n : before(j, i) }) + 1
    IN [ p \in 1..n |-> s[CHOOSE i \in 1..n : pos(i) = p] ]

(***************************************************************************)
(* State of one parse_migrations call                                       *)
(***************************************************************************)
VARIABLES
    pc,             \* position in parse_migrations: "start", "loop", "done"
    dirExists,      \* migrations_dir.exists()
    directory,      \* the *.php files of the directory: [name, content]
    queue,          \* files the outer for loop has not reached yet
    migration_file, \* name of the file being processed
    pending,        \* blocks _parse_migration_file has not yielded yet
    table_name,     \* table of the block whose ops are being applied
    ops,            \* ops of that block not applied yet
    op,             \* the loop variable of `for op in ops`: the op applied last
    table_schemas,  \* dict table -> dict column -> type
    table_indexes,  \* dict table -> list of [column, type]
    table_fks,      \* dict table -> list of foreign key dicts
    table_files,    \* dict table -> list of file names
    result,         \* the returned list
    \* state of one parse_routes call
    rpc,            \* position in parse_routes: "start", "loop", "groups", "done"
    routesDirExists,\* routes_dir.exists()
    routeDir,       \* the route files: [stem, content]
    rqueue,         \* files the for loop has not reached yet, in glob order
    route_file,     \* the file being processed
    routes_in_file, \* routes collected for that file so far
    routes,         \* dict route_type -> list of routes
    \* state of one run of main
    mpc,            \* position in main
    args,           \* the parsed command line
    env,            \* which credentials the command line or the environment gives
    project,        \* the documents of app/Models, app/Http/Controllers, app/Services
    data,           \* what parse_all has recovered so far
    todo,           \* entities the generation loops have not reached yet
    calls,          \* the ai.generate calls issued so far: [key, ok]
    ai_descriptions,\* dict key -> generated text
    markdown,       \* whether generator.generate has rendered the document
    written,        \* the files written so far
    exportTodo,     \* workspace API calls the exporter has still to make
    exports,        \* workspace API calls made so far
    report,         \* the failures printed so far
    exit,           \* the return code of main, "" while it runs
    backend_name,   \* the backend name main hands to get_ai_backend
    \* state of one call of a NotionExporter upload method
    npc,            \* position in the method
    nargs,          \* the method and its arguments
    blocks,         \* the blocks of the document being uploaded
    page_id,        \* the page the remaining blocks are appended to
    offset,         \* the loop variable i of the append loop
    keys,           \* section keys the for loop has not reached yet
    root_id,        \* the parent the child pages are created under
    urls,           \* dict key -> url of upload_hierarchy_flat
    pages,          \* the workspace: page id -> [parent, title, children]
    requests,       \* the API calls made so far
    nresult,        \* the returned value
    \* state of one generate_json call
    gpc,            \* position in generate_json
    client,         \* the class whose generate_json runs
    response,       \* what self.generate returns
    json_text,      \* the local variable text
    outcome,        \* the returned value or the raised error
    \* state of one JavaParser configuration parse
    cpc,            \* position in parse_configs
    configDir,      \* the configuration files under the project root
    cqueue,         \* the files the three rglob loops have yet to yield
    configs         \* the list parse_configs builds

migVars ==
    << pc, dirExists, directory, queue, migration_file, pending, table_name,
       ops, op, table_schemas, table_indexes, table_fks, table_files, result >>

routeVars ==
    << rpc, routesDirExists, routeDir, rqueue, route_file, routes_in_file, routes >>

mainVars ==
    << mpc, args, env, project, data, todo, calls, ai_descriptions, markdown,
       written, exportTodo, exports, report, exit, backend_name >>

notionVars ==
    << npc, nargs, blocks, page_id, offset, keys, root_id, urls, pages,
       requests, nresult >>

jsonVars == << gpc, client, response, json_text, outcome >>

configVars == << cpc, configDir, cqueue, configs >>

otherVars == << notionVars, jsonVars, configVars >>

vars == << migVars, routeVars, mainVars, otherVars >>

\* the document bytes are valid UTF-8: open(..., encoding='utf-8').read()
\* raises UnicodeDecodeError on any other document
Decodes(content) == \A i \in 1..Len(content) : content[i].tok # "undecodable"

NoData == [ models |-> <<>>, controllers |-> <<>>, routes |-> <<>>,
            migrations |-> <<>>, services |-> <<>> ]

NoProject == [ models |-> <<>>, controllers |-> <<>>, services |-> <<>> ]

\* the parsers are run on their own: no run of main
MainIdle ==
    /\ mpc = "idle"
    /\ args = [ plugin |-> "laravel", output |-> "markdown", no_ai |-> TRUE,
                ai_backend |-> "claude-code", notion_flat |-> FALSE,
                dir |-> "project", file |-> <<>> ]
    /\ env = [ notion_token |-> FALSE, notion_page_id |-> FALSE, api_key |-> FALSE,
               AI_BACKEND |-> "" ]
    /\ project = NoProject
    /\ data = NoData
    /\ todo = <<>>
    /\ calls = <<>>
    /\ ai_descriptions = <<>>
    /\ markdown = FALSE
    /\ written = {}
    /\ exportTodo = <<>>
    /\ exports = <<>>
    /\ report = {}
    /\ exit = ""
    /\ backend_name = ""

\* no upload method of the exporter is running
ExporterIdle ==
    /\ npc = "idle"
    /\ nargs = [ method |-> "", markdown |-> <<>>, parts |-> <<>>, title |-> "" ]
    /\ blocks = <<>>
    /\ page_id = 0
    /\ offset = 0
    /\ keys = <<>>
    /\ root_id = 0
    /\ urls = <<>>
    /\ pages = <<>>
    /\ requests = <<>>
    /\ nresult = <<>>

\* no generate_json call is running
JsonIdle ==
    /\ gpc = "idle"
    /\ client = ""
    /\ response = <<>>
    /\ json_text = <<>>
    /\ outcome = [ kind |-> "", value |-> <<>> ]

\* no configuration file is being parsed
ConfigIdle ==
    /\ cpc = "idle"
    /\ configDir = {}
    /\ cqueue = <<>>
    /\ configs = <<>>

OthersIdle == ExporterIdle /\ JsonIdle /\ ConfigIdle

\* the orders in which glob may yield the files of a directory
Glob(dir) ==
    { g \in [ 1..Cardinality(dir) -> dir ] :
        \A i, j \in 1..Cardinality(dir) : g[i] = g[j] => i = j }

\* faulty variant: the glob order is used as it comes, without sorted()
SortedFilesUnsorted(dir) == dir

\* for migration_file in sorted(migrations_dir.glob('*.php'))
SortedFiles(dir) == SortedBy(dir, [ i \in 1..Len(dir) |-> dir[i].name ])

\* faulty variant: an add of a present column removes it and inserts it again
FoldOpReinsert(st, o) ==
    IF o.action = "add"
    THEN IF o.type \in { "index", "unique", "primary" }
         THEN [ st EXCEPT !.idxs = Append(@, [ column |-> o.name, type |-> o.type ]) ]
         ELSE IF o.type = "foreign"
         THEN [ st EXCEPT !.fks = Append(@,
                  [ column |-> o.name, references |-> o.references, on |-> o.on,
                    on_delete |-> o.on_delete, on_update |-> o.on_update ]) ]
         ELSE [ st EXCEPT !.schema = Append(DictPop(@, o.name),
                                            [ k |-> o.name, v |-> o.type ]) ]
    ELSE IF o.action = "drop"
    THEN [ st EXCEPT !.schema = DictPop(@, o.name) ]
    ELSE st

\* faulty variant: an index or foreign key that is already listed is not appended
FoldOpDedup(st, o) ==
    IF o.action = "add"
    THEN IF o.type \in { "index", "unique", "primary" }
         THEN IF [ column |-> o.name, type |-> o.type ] \in Range(st.idxs)
              THEN st
              ELSE [ st EXCEPT !.idxs = Append(@, [ column |-> o.name, type |-> o.type ]) ]
         ELSE IF o.type = "foreign"
         THEN IF \E i \in 1..Len(st.fks) : st.fks[i].column = o.name
              THEN st
              ELSE [ st EXCEPT !.fks = Append(@,
                       [ column |-> o.name, references |-> o.references, on |-> o.on,
                         on_delete |-> o.on_delete, on_update |-> o.on_update ]) ]
         ELSE [ st EXCEPT !.schema = DictSet(@, o.name, o.type) ]
    ELSE IF o.action = "drop"
    THEN [ st EXCEPT !.schema = DictPop(@, o.name) ]
    ELSE st

\* faulty variant: a drop is not applied
FoldOpNoDrop(st, o) ==
    IF o.action = "add"
    THEN IF o.type \in { "index", "unique", "primary" }
         THEN [ st EXCEPT !.idxs = Append(@, [ column |-> o.name, type |-> o.type ]) ]
         ELSE IF o.type = "foreign"
         THEN [ st EXCEPT !.fks = Append(@,
                  [ column |-> o.name, references |-> o.references, on |-> o.on,
                    on_delete |-> o.on_delete, on_update |-> o.on_update ]) ]
         ELSE [ st EXCEPT !.schema = DictSet(@, o.name, o.type) ]
    ELSE st

\* faulty variant: a column that is not present is put in front of the others
FoldOpPrepend(st, o) ==
    IF o.action = "add"
    THEN IF o.type \in { "index", "unique", "primary" }
         THEN [ st EXCEPT !.idxs = Append(@, [ column |-> o.name, type |-> o.type ]) ]
         ELSE IF o.type = "foreign"
         THEN [ st EXCEPT !.fks = Append(@,
                  [ column |-> o.name, references |-> o.references, on |-> o.on,
                    on_delete |-> o.on_delete, on_update |-> o.on_update ]) ]
         ELSE IF DictHas(st.schema, o.name)
         THEN [ st EXCEPT !.schema = DictSet(@, o.name, o.type) ]
         ELSE [ st EXCEPT !.schema = << [ k |-> o.name, v |-> o.type ] >> \o @ ]
    ELSE IF o.action = "drop"
    THEN [ st EXCEPT !.schema = DictPop(@, o.name) ]
    ELSE st

\* lines 466-480: one op applied to the table's schema / idxs / fks
FoldOp(st, o) ==
    IF o.action = "add"
    THEN IF o.type \in { "index", "unique", "primary" }
         THEN [ st EXCEPT !.idxs = Append(@, [ column |-> o.name, type |-> o.type ]) ]
         ELSE IF o.type = "foreign"
         THEN [ st EXCEPT !.fks = Append(@,
                  [ column |-> o.name, references |-> o.references, on |-> o.on,
                    on_delete |-> o.on_delete, on_update |-> o.on_update ]) ]
         ELSE [ st EXCEPT !.schema = DictSet(@, o.name, o.type) ]
    ELSE IF o.action = "drop"
    THEN [ st EXCEPT !.schema = DictPop(@, o.name) ]
    ELSE st

\* faulty variant: every table works on the dicts of the table registered first
TableStateShared(t) ==
    [ schema |-> table_schemas[1].v,
      idxs |-> table_indexes[1].v,
      fks |-> table_fks[1].v ]

\* lines 460-462: schema, idxs, fks of table t
TableState(t) ==
    [ schema |-> DictGet(table_schemas, t),
      idxs |-> DictGet(table_indexes, t),
      fks |-> DictGet(table_fks, t) ]

\* lines 447-449
NoMigrationsDir ==
    /\ pc = "start"
    /\ ~dirExists
    /\ result' = <<>>
    /\ pc' = "done"
    /\ UNCHANGED << dirExists, directory, queue, migration_file, pending,
                    table_name, ops, table_schemas, table_indexes, table_fks,
                    table_files, op >>
    /\ UNCHANGED routeVars
    /\ UNCHANGED << mainVars, otherVars >>

\* line 451: the file list is sorted once, before the loop
ListFiles ==
    /\ pc = "start"
    /\ dirExists
    /\ \E g \in Glob(directory) : queue' = SortedFiles(g)
    /\ pc' = "loop"
    /\ UNCHANGED << dirExists, directory, migration_file, pending, table_name,
                    ops, table_schemas, table_indexes, table_fks, table_files,
                    result, op >>
    /\ UNCHANGED routeVars
    /\ UNCHANGED << mainVars, otherVars >>

\* line 451-452: next file; _parse_migration_file reads it and finds its blocks
NextFile ==
    /\ pc = "loop"
    /\ ops = <<>>
    /\ pending = <<>>
    /\ queue # <<>>
    /\ migration_file' = Head(queue).name
    /\ queue' = Tail(queue)
    /\ IF Decodes(Head(queue).content)
       THEN /\ pending' = MatchedBlocks(Head(queue).content)
            /\ pc' = pc
       ELSE \* lines 500-501: f.read() raises, parse_migrations is left
            /\ pending' = pending
            /\ pc' = "raised"
    /\ UNCHANGED << dirExists, directory, table_name, ops, table_schemas,
                    table_indexes, table_fks, table_files, result, op >>
    /\ UNCHANGED routeVars
    /\ UNCHANGED << mainVars, otherVars >>

\* lines 515-581 and 452-462: the generator yields (table_name, ops) of the
\* next block; the table's entries are created
NextBlock ==
    /\ pc = "loop"
    /\ ops = <<>>
    /\ pending # <<>>
    /\ LET b == Head(pending)
           files == IF DictHas(table_files, b.table)
                    THEN DictGet(table_files, b.table) ELSE <<>>
       IN /\ table_name' = b.table
          /\ ops' = BodyOps(b.body)
          /\ table_files' =
                DictSet(table_files, b.table,
                        IF migration_file \in Range(files)
                        THEN files ELSE Append(files, migration_file))
          /\ table_schemas' = DictSetDefault(table_schemas, b.table, <<>>)
          /\ table_indexes' = DictSetDefault(table_indexes, b.table, <<>>)
          /\ table_fks' = DictSetDefault(table_fks, b.table, <<>>)
    /\ pending' = Tail(pending)
    /\ UNCHANGED << pc, dirExists, directory, queue, migration_file, result, op >>
    /\ UNCHANGED routeVars
    /\ UNCHANGED << mainVars, otherVars >>

\* lines 463-480: one iteration of `for op in ops`
ApplyOp ==
    /\ pc = "loop"
    /\ ops # <<>>
    /\ LET st == FoldOp(TableState(table_name), Head(ops))
       IN /\ table_schemas' = DictSet(table_schemas, table_name, st.schema)
          /\ table_indexes' = DictSet(table_indexes, table_name, st.idxs)
          /\ table_fks' = DictSet(table_fks, table_name, st.fks)
    /\ op' = Head(ops)
    /\ ops' = Tail(ops)
    /\ UNCHANGED << pc, dirExists, directory, queue, migration_file, pending,
                    table_name, table_files, result >>
    /\ UNCHANGED routeVars
    /\ UNCHANGED << mainVars, otherVars >>

\* faulty variant: tables without any column, index or foreign key are left out
BuildResultNonEmpty ==
    LET kept == SelectSeq(table_schemas, LAMBDA e :
                    \/ e.v # <<>>
                    \/ DictGet(table_indexes, e.k) # <<>>
                    \/ DictGet(table_fks, e.k) # <<>>)
    IN [ i \in 1..Len(kept) |->
           LET t == kept[i].k
               cols == kept[i].v
           IN [ table_name |-> t,
                columns |-> [ j \in 1..Len(cols) |->
                                [ name |-> cols[j].k, type |-> cols[j].v ] ],
                files |-> DictGet(table_files, t),
                indexes |-> DictGet(table_indexes, t),
                foreign_keys |-> DictGet(table_fks, t) ] ]

\* lines 483-492: one entry per key of table_schemas, in dict order
BuildResult ==
    [ i \in 1..Len(table_schemas) |->
        LET t == table_schemas[i].k
            cols == table_schemas[i].v
        IN [ table_name |-> t,
             columns |-> [ j \in 1..Len(cols) |->
                             [ name |-> cols[j].k, type |-> cols[j].v ] ],
             files |-> IF DictHas(table_files, t) THEN DictGet(table_files, t) ELSE <<>>,
             indexes |-> IF DictHas(table_indexes, t) THEN DictGet(table_indexes, t) ELSE <<>>,
             foreign_keys |-> IF DictHas(table_fks, t) THEN DictGet(table_fks, t) ELSE <<>> ] ]

\* faulty variant: the result is returned in dict order
SortResultNone(r) == r

\* line 495: result.sort(key=lambda x: x['table_name'])
SortResult(r) == SortedBy(r, [ i \in 1..Len(r) |-> r[i].table_name ])

\* lines 483-496
Emit ==
    /\ pc = "loop"
    /\ ops = <<>>
    /\ pending = <<>>
    /\ queue = <<>>
    /\ result' = SortResult(BuildResult)
    /\ pc' = "done"
    /\ UNCHANGED << dirExists, directory, queue, migration_file, pending,
                    table_name, ops, table_schemas, table_indexes, table_fks,
                    table_files, op >>
    /\ UNCHANGED routeVars
    /\ UNCHANGED << mainVars, otherVars >>

\* the state before parse_migrations runs on the directory dir
InitOn(exists, dir) ==
    /\ pc = "start"
    /\ dirExists = exists
    /\ directory = dir
    /\ queue = <<>>
    /\ migration_file = ""
    /\ pending = <<>>
    /\ table_name = ""
    /\ ops = <<>>
    /\ op = Op("", "", "")
    /\ table_schemas = <<>>
    /\ table_indexes = <<>>
    /\ table_fks = <<>>
    /\ table_files = <<>>
    /\ result = <<>>
    /\ rpc = "idle"
    /\ routesDirExists = FALSE
    /\ routeDir = {}
    /\ rqueue = <<>>
    /\ route_file = ""
    /\ routes_in_file = <<>>
    /\ routes = <<>>
    /\ MainIdle
    /\ OthersIdle

Next ==
    \/ NoMigrationsDir
    \/ ListFiles
    \/ NextFile
    \/ NextBlock
    \/ ApplyOp
    \/ Emit

(***************************************************************************)
(* Inputs: bounded sets of migration directories                            *)
(***************************************************************************)
\* total number of statements in the block bodies of one directory
MaxStmts == 3

FileNames == << "2024_01_a.php", "2024_02_b.php", "2024_03_c.php" >>

Tables == { "posts", "todos", "users" }

\* documents made of at most one block, on a table of tbls, whose body has
\* l statements
DocsOn(tbls, stmts, l) ==
    (IF l = 0 THEN { <<>> } ELSE {})
    \cup { << Block("table", t, b) >> : t \in tbls, b \in [ 1..l -> stmts ] }

\* a missing directory, or three files that share MaxStmts statements, the
\* file FileNames[i] altering a table of tbls[i]
InitFiles(tbls, stmts) ==
    \/ InitOn(FALSE, {})
    \/ \E l1 \in 0..MaxStmts :
       \E l2 \in 0..(MaxStmts - l1) :
       \E l3 \in 0..(MaxStmts - l1 - l2) :
       \E d1 \in DocsOn(tbls[1], stmts, l1), d2 \in DocsOn(tbls[2], stmts, l2),
          d3 \in DocsOn(tbls[3], stmts, l3) :
          InitOn(TRUE, { [ name |-> FileNames[1], content |-> d1 ],
                         [ name |-> FileNames[2], content |-> d2 ],
                         [ name |-> FileNames[3], content |-> d3 ] })

InitCorpus(stmts) == InitFiles(<< Tables, Tables, Tables >>, stmts)

\* column declarations, a type change and a drop
FoldStmts ==
    { Call("string", "title"), Call("text", "title"), Call("boolean", "done"),
      Call("dropColumn", "title") }

\* index and foreign key declarations next to a column and its drop
\* $table->foreign('title')->references('id')->on('users')->onDelete('cascade');
IndexStmts ==
    { Call("string", "title"), Call("index", "title"),
      Chained("foreign", "title",
              << [ m |-> "references", a |-> "id" ], [ m |-> "on", a |-> "users" ],
                 [ m |-> "onDelete", a |-> "cascade" ] >>),
      Call("dropColumn", "title") }

\* calls that are none of the operation shapes: renameColumn('title', 'name'),
\* dropIndex('title'), dropForeign('title'), next to a column declaration
OtherStmts ==
    { Call("string", "title"), Call2("renameColumn", "title"),
      Call("dropIndex", "title"), Call("dropForeign", "title") }

\* documents with an apply and a revert section, in either order, with the
\* apply section alone, and without sections
SectionBlocks ==
    { Block("table", t, << st >>) :
        t \in { "todos", "users" },
        st \in { Call("string", "title"), Call("dropColumn", "title") } }

SectionDocs ==
    { << b >> : b \in SectionBlocks }
    \cup { << FnUp, b >> : b \in SectionBlocks }
    \cup { << FnUp, b, FnDown, r >> : b \in SectionBlocks, r \in SectionBlocks }
    \cup { << FnDown, r, FnUp, b >> : b \in SectionBlocks, r \in SectionBlocks }

InitSections ==
    \/ InitOn(FALSE, {})
    \/ \E d1 \in SectionDocs, d2 \in SectionDocs :
          InitOn(TRUE, { [ name |-> FileNames[1], content |-> d1 ],
                         [ name |-> FileNames[2], content |-> d2 ] })

\* the renderings of the scenario: doc1 creates todos with an identity column
\* id and a string column title, doc2 alters todos, adding boolean done and
\* dropping title; the two statements of a body in either order
IdentityStmts ==
    { Call0("id"), Call("id", "id"), Call("bigIncrements", "id"),
      Call("increments", "id") }

DropTitleStmts ==
    { Call("dropColumn", "title"), CallArr("dropColumn", << "title" >>) }

ScenarioDoc1 ==
    UNION { { << Block("create", "todos", << i, Call("string", "title") >>) >>,
              << Block("create", "todos", << Call("string", "title"), i >>) >> } :
            i \in IdentityStmts }

ScenarioDoc2 ==
    UNION { { << Block("table", "todos", << Call("boolean", "done"), d >>) >>,
              << Block("table", "todos", << d, Call("boolean", "done") >>) >> } :
            d \in DropTitleStmts }

InitScenario ==
    \/ InitOn(FALSE, {})
    \/ \E d1 \in ScenarioDoc1, d2 \in ScenarioDoc2 :
          InitOn(TRUE, { [ name |-> FileNames[1], content |-> d1 ],
                         [ name |-> FileNames[2], content |-> d2 ] })

\* two columns, an index, a foreign key and a drop
MixedStmts ==
    { Call("string", "title"), Call("boolean", "done"), Call("index", "title"),
      Chained("foreign", "title",
              << [ m |-> "references", a |-> "id" ], [ m |-> "on", a |-> "users" ] >>),
      Call("dropColumn", "title") }

\* every file alters a table of its own, in every assignment of the tables
\* to the files
InitDisjoint ==
    \E t1, t2, t3 \in Tables :
        /\ t1 # t2 /\ t1 # t3 /\ t2 # t3
        /\ InitFiles(<< { t1 }, { t2 }, { t3 } >>, MixedStmts)

Init == InitCorpus(FoldStmts)

Spec == Init /\ [][Next]_vars

InitIndex == InitCorpus(IndexStmts)

IndexSpec == InitIndex /\ [][Next]_vars

InitOther == InitCorpus(OtherStmts)

OtherSpec == InitOther /\ [][Next]_vars

SectionSpec == InitSections /\ [][Next]_vars

ScenarioSpec == InitScenario /\ [][Next]_vars

DisjointSpec == InitDisjoint /\ [][Next]_vars

(***************************************************************************)
(* Vocabulary of the properties: what a document declares, read off the     *)
(* document itself                                                          *)
(***************************************************************************)
\* the column type methods used by the documents of the model
ColumnTypes == { "string", "text", "boolean", "integer" }

IdentityTypes == { "id", "bigIncrements", "increments" }

Columns ==
    { "id", "title", "done", "user_id", "created_at", "updated_at", "deleted_at" }

\* statement s is a column declaration of column c with type ty
ColumnDecl(s, c, ty) ==
    \/ s.arg = "str" /\ s.m \in ColumnTypes /\ s.n = c /\ ty = s.m
    \/ s.m \in IdentityTypes /\ s.arg = "none" /\ c = "id" /\ ty = s.m
    \/ s.m \in IdentityTypes /\ s.arg = "str" /\ ~s.more /\ s.n = c /\ ty = s.m
    \/ s.m = "timestamps" /\ s.arg = "none" /\ c \in { "created_at", "updated_at" }
          /\ ty = "timestamp"
    \/ s.m = "softDeletes" /\ s.arg = "none" /\ c = "deleted_at" /\ ty = "timestamp"
    \/ s.m = "foreignId" /\ s.arg = "str" /\ ~s.more /\ s.n = c /\ ty = "foreignId"

\* statement s drops column c
ColumnDrop(s, c) ==
    /\ s.m = "dropColumn"
    /\ \/ s.arg = "str" /\ ~s.more /\ s.n = c
       \/ s.arg = "arr" /\ c \in Range(s.ns)

\* the create/alter blocks of a document, wherever they are
AllBlocks(content) == SelectSeq(content, LAMBDA it : it.tok = "block")

DocTouches(f, t) ==
    \E b \in Range(AllBlocks(f.content)) : b.table = t

DocAdds(f, t, c) ==
    \E b \in Range(AllBlocks(f.content)) :
        b.table = t /\ \E s \in Range(b.body) :
                          \E ty \in { s.m, "timestamp", "foreignId" } :
                              ColumnDecl(s, c, ty)

DocDrops(f, t, c) ==
    \E b \in Range(AllBlocks(f.content)) :
        b.table = t /\ \E s \in Range(b.body) : ColumnDrop(s, c)

ResultTables == { result[i].table_name : i \in 1..Len(result) }

Entry(t) == result[CHOOSE i \in 1..Len(result) : result[i].table_name = t]

ColumnNames(e) == [ i \in 1..Len(e.columns) |-> e.columns[i].name ]

HasColumn(t, c) ==
    t \in ResultTables /\ c \in Range(ColumnNames(Entry(t)))

IsPrefix(a, b) == Len(a) <= Len(b) /\ a = SubSeq(b, 1, Len(a))

(***************************************************************************)
(* C1: documents are folded in ascending file name order and the net        *)
(* effect follows it: a column added by A and dropped by a later B (no      *)
(* later re-add) is absent; dropped by A and added by a later B (no later   *)
(* drop) it is present.                                                     *)
(***************************************************************************)
AddThenDrop(A, B, t, c) ==
    /\ StrLess(A.name, B.name)
    /\ DocDrops(B, t, c)
    /\ DocAdds(A, t, c)
    /\ ~DocAdds(B, t, c)
    /\ \A F \in directory : StrLess(B.name, F.name) => ~DocAdds(F, t, c)

DropThenAdd(A, B, t, c) ==
    /\ StrLess(A.name, B.name)
    /\ DocDrops(A, t, c)
    /\ DocAdds(B, t, c)
    /\ ~DocDrops(B, t, c)
    /\ \A F \in directory : StrLess(B.name, F.name) => ~DocDrops(F, t, c)

C1_NetEffectFollowsFileOrder ==
    /\ \A i \in 1..Len(queue) :
          /\ migration_file # "" => StrLess(migration_file, queue[i].name)
          /\ \A j \in (i + 1)..Len(queue) : StrLess(queue[i].name, queue[j].name)
    /\ pc = "done" =>
          \A A, B \in directory : \A t \in Tables :
              (StrLess(A.name, B.name) /\ DocTouches(A, t) /\ DocTouches(B, t)) =>
                  \A c \in Columns :
                      /\ AddThenDrop(A, B, t, c) => ~HasColumn(t, c)
                      /\ DropThenAdd(A, B, t, c) => HasColumn(t, c)

C1_Witness ==
    /\ pc = "done"
    /\ \E A, B \in directory : \E t \in Tables : \E c \in Columns :
          AddThenDrop(A, B, t, c) /\ t \in ResultTables /\ ~HasColumn(t, c)

(***************************************************************************)
(* C3: when no two documents touch the same table, each table's final       *)
(* schema is the fold of its own document alone, whatever the other         *)
(* documents are and wherever the document sorts.                           *)
(***************************************************************************)
RECURSIVE FoldOps(_, _)
FoldOps(st, os) ==
    IF os = <<>> THEN st ELSE FoldOps(FoldOp(st, Head(os)), Tail(os))

\* the schema of table t as document f alone defines it
SoloState(f, t) ==
    LET bs == SelectSeq(MatchedBlocks(f.content), LAMBDA b : b.table = t)
    IN FoldOps([ schema |-> <<>>, idxs |-> <<>>, fks |-> <<>> ],
               Flatten([ i \in 1..Len(bs) |-> BodyOps(bs[i].body) ]))

DisjointDocs ==
    \A f, g \in directory : \A t \in Tables :
        DocTouches(f, t) /\ DocTouches(g, t) => f = g

C3_DisjointDocsFoldAlone ==
    (pc = "done" /\ DisjointDocs) =>
        \A f \in directory : \A t \in Tables :
            DocTouches(f, t) =>
                /\ t \in ResultTables
                /\ LET e == Entry(t)
                       solo == SoloState(f, t)
                   IN /\ e.columns = [ j \in 1..Len(solo.schema) |->
                                         [ name |-> solo.schema[j].k,
                                           type |-> solo.schema[j].v ] ]
                      /\ e.indexes = solo.idxs
                      /\ e.foreign_keys = solo.fks
                      /\ e.files = << f.name >>

C3_Witness ==
    /\ pc = "done"
    /\ DisjointDocs
    /\ \E f, g \in directory : \E t, u \in Tables :
          /\ f # g /\ t # u
          /\ DocTouches(f, t) /\ DocTouches(g, u)
          /\ StrLess(f.name, g.name) /\ StrLess(u, t)
          /\ Entry(t).columns # <<>> /\ Entry(u).columns # <<>>
          /\ Entry(t).indexes # <<>>

(***************************************************************************)
(* C6 as stated: a table is in the result only if some operation was        *)
(* recognised for it in some document.                                      *)
(***************************************************************************)
TableHasOps(t) ==
    \E f \in directory : \E b \in Range(MatchedBlocks(f.content)) :
        b.table = t /\ BodyOps(b.body) # <<>>

C6_OnlyTablesWithOps ==
    pc = "done" => \A t \in ResultTables : TableHasOps(t)

(***************************************************************************)
(* C6 amended: a table is in the result exactly if some create/alter block  *)
(* naming it was matched in some document, whether or not an operation was  *)
(* recognised in it; a table without operations is emitted with empty       *)
(* columns, indexes and foreign keys.                                       *)
(***************************************************************************)
MatchedTables ==
    { b.table : b \in UNION { Range(MatchedBlocks(f.content)) : f \in directory } }

C6_TablesWithBlocks ==
    (pc = "done" /\ dirExists) =>
        /\ ResultTables = MatchedTables
        /\ \A t \in ResultTables :
              ~TableHasOps(t) =>
                  /\ Entry(t).columns = <<>>
                  /\ Entry(t).indexes = <<>>
                  /\ Entry(t).foreign_keys = <<>>

C6_Witness ==
    /\ pc = "done"
    /\ \E t \in ResultTables : ~TableHasOps(t)
    /\ \E t \in ResultTables : TableHasOps(t)

(***************************************************************************)
(* C7: the returned list is sorted by table name, ascending, and holds      *)
(* each table name at most once.                                            *)
(***************************************************************************)
C7_SortedUniqueTables ==
    pc = "done" =>
        \A i, j \in 1..Len(result) :
            i < j => StrLess(result[i].table_name, result[j].table_name)

\* several tables, registered in an order that is not the sorted one, one of
\* them by more than one block
C7_Witness ==
    /\ pc = "done"
    /\ Len(result) >= 2
    /\ StrLess(table_schemas[2].k, table_schemas[1].k)
    /\ \E i \in 1..Len(result) : Len(result[i].files) > 1

(***************************************************************************)
(* C8: an Add of a column that is present overwrites its type and moves no  *)
(* column; a Drop of a column that is not present changes nothing.          *)
(***************************************************************************)
IsColumnAdd(o) ==
    o.action = "add" /\ o.type \notin { "index", "unique", "primary", "foreign" }

C8_Step ==
    (pc = "loop" /\ ops # <<>>) =>
        LET o == Head(ops)
            old == DictGet(table_schemas, table_name)
            new == DictGet(table_schemas', table_name)
        IN /\ (IsColumnAdd(o) /\ DictHas(old, o.name)) =>
                  /\ DictKeys(new) = DictKeys(old)
                  /\ DictGet(new, o.name) = o.type
                  /\ \A i \in 1..Len(old) : old[i].k # o.name => new[i] = old[i]
           /\ (o.action = "drop" /\ ~DictHas(old, o.name)) => new = old

C8_ReAddKeepsPosition == [][C8_Step]_vars

\* the op applied last re-added a column that is not the last one, with a
\* type that differs from the one it was declared with first
C8_Witness ==
    /\ pc = "loop"
    /\ IsColumnAdd(op)
    /\ op.type = "text"
    /\ DictHas(table_schemas, table_name)
    /\ LET cols == DictGet(table_schemas, table_name)
       IN /\ DictHas(cols, op.name)
          /\ DictIdx(cols, op.name) < Len(cols)
          /\ DictGet(cols, op.name) = op.type

(***************************************************************************)
(* C2: doc1 creates todos with an identity column id and a string column    *)
(* title, doc2 alters todos adding boolean done and dropping title: the     *)
(* result is exactly one table todos with the columns id (identity type)    *)
(* then done (boolean).                                                     *)
(***************************************************************************)
C2_TodosScenario ==
    (pc = "done" /\ dirExists) =>
        /\ Len(result) = 1
        /\ result[1].table_name = "todos"
        /\ ColumnNames(result[1]) = << "id", "done" >>
        /\ result[1].columns[1].type \in IdentityTypes
        /\ \E f \in directory : \E b \in Range(AllBlocks(f.content)) :
              \E st \in Range(b.body) :
                  ColumnDecl(st, "id", result[1].columns[1].type)
        /\ result[1].columns[2].type = "boolean"

\* the run over the two documents has ended, both were folded into todos
C2_Witness ==
    /\ pc = "done"
    /\ dirExists
    /\ Len(result) = 1
    /\ result[1].files = << FileNames[1], FileNames[2] >>
    /\ op.action = "drop"
    /\ ~HasColumn("todos", "title")

(***************************************************************************)
(* C4: in a document that has both an apply section (function up) and a     *)
(* revert section (function down), in either order, only the blocks of the  *)
(* apply section are folded.                                                *)
(***************************************************************************)
HasBothSections(content) ==
    /\ \E i \in 1..Len(content) : content[i].tok = "up"
    /\ \E i \in 1..Len(content) : content[i].tok = "down"

\* item i of the document lies in the revert section: the section marker
\* nearest before it is `function down`
InRevert(content, i) ==
    \E j \in 1..(i - 1) :
        /\ content[j].tok = "down"
        /\ \A k \in (j + 1)..(i - 1) : content[k].tok # "up"

\* the blocks that may contribute: all of them, or those outside the revert
\* section when the document has both sections
ApplyBlocks(content) ==
    LET keep == { i \in 1..Len(content) :
                    /\ content[i].tok = "block"
                    /\ ~(HasBothSections(content) /\ InRevert(content, i)) }
        RECURSIVE pick(_)
        pick(i) ==
            IF i > Len(content) THEN <<>>
            ELSE (IF i \in keep THEN << content[i] >> ELSE <<>>) \o pick(i + 1)
    IN pick(1)

IsSuffix(a, b) ==
    Len(a) <= Len(b) /\ a = SubSeq(b, Len(b) - Len(a) + 1, Len(b))

CurrentFile == CHOOSE f \in directory : f.name = migration_file

C4_RevertSectionIgnored ==
    migration_file # "" => IsSuffix(pending, ApplyBlocks(CurrentFile.content))

(***************************************************************************)
(* C5: a $table-> call that is none of the recognised operation shapes      *)
(* produces no operation: every column of the result, with its type, comes  *)
(* from a column declaration of that table.                                 *)
(***************************************************************************)
C5_UnrecognisedCallsSkipped ==
    pc = "done" =>
        \A i \in 1..Len(result) : \A j \in 1..Len(result[i].columns) :
            \E f \in directory : \E b \in Range(AllBlocks(f.content)) :
                /\ b.table = result[i].table_name
                /\ \E st \in Range(b.body) :
                      ColumnDecl(st, result[i].columns[j].name,
                                 result[i].columns[j].type)

(***************************************************************************)
(* C9: index and foreign key operations are appended unconditionally, the   *)
(* sequences only grow during the fold (a column drop removes nothing from  *)
(* them), and index / unique / primary / foreign declarations create no     *)
(* column.                                                                  *)
(***************************************************************************)
GrowOnly(d, e) ==
    /\ Len(d) <= Len(e)
    /\ \A i \in 1..Len(d) : e[i].k = d[i].k /\ IsPrefix(d[i].v, e[i].v)

C9_Step ==
    /\ GrowOnly(table_indexes, table_indexes')
    /\ GrowOnly(table_fks, table_fks')
    /\ (pc = "loop" /\ ops # <<>>) =>
          LET o == Head(ops)
              old == TableState(table_name)
              newSchema == DictGet(table_schemas', table_name)
              newIdxs == DictGet(table_indexes', table_name)
              newFks == DictGet(table_fks', table_name)
          IN /\ (o.action = "add" /\ o.type \in { "index", "unique", "primary" }) =>
                    /\ newIdxs = Append(old.idxs, [ column |-> o.name, type |-> o.type ])
                    /\ newSchema = old.schema
                    /\ newFks = old.fks
             /\ (o.action = "add" /\ o.type = "foreign") =>
                    /\ Len(newFks) = Len(old.fks) + 1
                    /\ newFks[Len(newFks)].column = o.name
                    /\ IsPrefix(old.fks, newFks)
                    /\ newSchema = old.schema
                    /\ newIdxs = old.idxs

IndexDeclMethods == { "index", "unique", "primary", "foreign" }

\* the ops of a block: an index-like declaration yields no column add
C9_NoColumnFromIndexDecl ==
    \A i \in 1..Len(pending) :
        LET body == pending[i].body
        IN \A k \in 1..Len(BodyOps(body)) :
              LET o == BodyOps(body)[k]
              IN IsColumnAdd(o) =>
                    \E st \in Range(body) :
                        st.m \notin IndexDeclMethods /\ st.n = o.name

C9_IndexesAppendOnly ==
    /\ [][C9_Step]_vars
    /\ []C9_NoColumnFromIndexDecl

\* the same index declared twice is listed twice, a foreign key is listed,
\* and the drop of the column that was applied last removed neither
C9_Witness ==
    /\ pc = "loop"
    /\ op.action = "drop"
    /\ DictHas(table_indexes, table_name)
    /\ LET idxs == DictGet(table_indexes, table_name)
           fks == DictGet(table_fks, table_name)
       IN \/ /\ Len(idxs) >= 2
             /\ idxs[1] = idxs[2]
             /\ idxs[1].column = op.name
          \/ /\ Len(idxs) >= 1
             /\ Len(fks) >= 1
             /\ idxs[1].column = op.name
             /\ fks[1].column = op.name

(***************************************************************************)
(* Route source text.                                                       *)
(* A URI is the sequence of its pieces, "/" and path words: '/users' is     *)
(* << "/", "users" >>, 'api/users' is << "api", "/", "users" >>.            *)
(* An action expression is [shape, cls, meth]:                              *)
(*   "tuple"   [Cls::class, 'meth']       "string"  'Cls@meth'              *)
(*   "bare"    Cls@meth                   "closure" function () { ... }     *)
(* A middleware argument list is [arr, names]: 'a', 'b' or ['a', 'b'].      *)
(* A route document is a sequence of items in text order:                   *)
(*   "route"    Route::verb('uri', action)[->middleware(mw)];               *)
(*   "mwroute"  Route::middleware(mw)->verb('uri', action);                 *)
(*   "group"    Route::[middleware(mw)][sep prefix(p)][sep]group(function   *)
(*              () { body });  hdr lists the attachments in text order,     *)
(*              sep is what stands between the calls: "->" or " "           *)
(***************************************************************************)
NoMw == [ arr |-> FALSE, names |-> <<>> ]

MwArgs(names) == [ arr |-> FALSE, names |-> names ]

MwArray(names) == [ arr |-> TRUE, names |-> names ]

Tuple(cls, meth) == [ shape |-> "tuple", cls |-> cls, meth |-> meth ]

AtString(cls, meth) == [ shape |-> "string", cls |-> cls, meth |-> meth ]

\* the text Cls@meth
At(cls, meth) == [ shape |-> "bare", cls |-> cls, meth |-> meth ]

RouteDecl(verb, uri, action, mw) ==
    [ tok |-> "route", verb |-> verb, uri |-> uri, action |-> action, mw |-> mw,
      hdr |-> <<>>, sep |-> "", body |-> <<>> ]

MwRouteDecl(mw, verb, uri, action) ==
    [ tok |-> "mwroute", verb |-> verb, uri |-> uri, action |-> action, mw |-> mw,
      hdr |-> <<>>, sep |-> "", body |-> <<>> ]

Group(hdr, sep, body) ==
    [ tok |-> "group", verb |-> "", uri |-> <<>>, action |-> At("", ""), mw |-> NoMw,
      hdr |-> hdr, sep |-> sep, body |-> body ]

WithMiddleware(mw) == [ kind |-> "middleware", mw |-> mw, prefix |-> <<>> ]

WithPrefix(p) == [ kind |-> "prefix", mw |-> NoMw, prefix |-> p ]

\* match.group(1).upper()
Upper(verb) ==
    CASE verb = "get" -> "GET"
      [] verb = "post" -> "POST"
      [] verb = "put" -> "PUT"
      [] verb = "delete" -> "DELETE"
      [] verb = "patch" -> "PATCH"
      [] verb = "options" -> "OPTIONS"
      [] verb = "any" -> "ANY"

\* the text 'Legacy@run', [Cls::class, 'meth']: a Class@method string and a
\* class reference with a method name in one expression
Mixed(cls, meth) == [ shape |-> "mixed", cls |-> cls, meth |-> meth ]

\* the text function ( of an inline handler, which is what ([^\);]+) keeps
Closure == [ shape |-> "closure", cls |-> "", meth |-> "" ]

\* faulty variant: the Class@method string is looked for first
NormalizeStringFirst(action) ==
    IF action.shape = "mixed" THEN At("Legacy", "run")
    ELSE IF action.shape \in { "string", "bare" } THEN At(action.cls, action.meth)
    ELSE IF action.shape = "tuple" THEN At(action.cls, action.meth)
    ELSE action

\* lines 420-433: the class reference with a method name is searched first,
\* then the Class@method text, quoted or not; the result is the text Cls@meth
NormalizeRouteAction(action) ==
    IF action.shape \in { "tuple", "mixed" } THEN At(action.cls, action.meth)
    ELSE IF action.shape \in { "string", "bare" } THEN At(action.cls, action.meth)
    ELSE action

\* [m.strip().strip('\'"') for m in mw_raw.split(',') if m.strip()]
\* an entry is [pre, name, post]: the quotes around a name are stripped only
\* where they are the first or last character of the piece, so the brackets
\* of an array argument stay, with the quote they cover
ParseMiddleware(raw) ==
    IF ~raw.arr
    THEN [ i \in 1..Len(raw.names) |->
             [ pre |-> "", name |-> raw.names[i], post |-> "" ] ]
    ELSE IF raw.names = <<>>
    THEN << [ pre |-> "[", name |-> "", post |-> "]" ] >>
    ELSE [ i \in 1..Len(raw.names) |->
             [ pre |-> IF i = 1 THEN "['" ELSE "",
               name |-> raw.names[i],
               post |-> IF i = Len(raw.names) THEN "']" ELSE "" ] ]

\* the middleware name as declared
Mw(name) == [ pre |-> "", name |-> name, post |-> "" ]

RECURSIVE RStrip(_)
\* prefix.rstrip('/')
RStrip(u) ==
    IF u # <<>> /\ u[Len(u)] = "/" THEN RStrip(SubSeq(u, 1, Len(u) - 1)) ELSE u

RECURSIVE LStrip(_)
\* uri.lstrip('/')
LStrip(u) ==
    IF u # <<>> /\ Head(u) = "/" THEN LStrip(Tail(u)) ELSE u

\* faulty variant: the prefix and the URI are put side by side as they are
JoinPrefixConcat(prefix, uri) == prefix \o uri

\* lines 402-403
JoinPrefix(prefix, uri) ==
    IF prefix # <<>> THEN RStrip(prefix) \o << "/" >> \o LStrip(uri) ELSE uri

\* the text of a document with the group blocks opened: finditer over the
\* whole content sees the declarations inside a group body like any other
RECURSIVE TextItems(_)
TextItems(content) ==
    IF content = <<>> THEN <<>>
    ELSE IF Head(content).tok = "group"
    THEN TextItems(Head(content).body) \o TextItems(Tail(content))
    ELSE << Head(content) >> \o TextItems(Tail(content))

RouteOf(it, uri, mws) ==
    [ method |-> Upper(it.verb), uri |-> uri,
      action |-> NormalizeRouteAction(it.action), middleware |-> mws ]

\* lines 343-379: every Route::verb(...) of the text, then every
\* Route::middleware(...)->verb(...)
ParseRouteFile(content) ==
    LET plain == SelectSeq(TextItems(content), LAMBDA it : it.tok = "route")
        withMw == SelectSeq(TextItems(content), LAMBDA it : it.tok = "mwroute")
    IN [ i \in 1..Len(plain) |->
           RouteOf(plain[i], plain[i].uri, ParseMiddleware(plain[i].mw)) ]
       \o [ i \in 1..Len(withMw) |->
           RouteOf(withMw[i], withMw[i].uri, ParseMiddleware(withMw[i].mw)) ]

\* group_pattern: Route:: then an optional middleware(...), an optional
\* prefix(...), in this order and separated by white space only, then group(
GroupMatches(g) ==
    LET kinds == [ i \in 1..Len(g.hdr) |-> g.hdr[i].kind ]
    IN \/ g.hdr = <<>>
       \/ /\ g.sep = " "
          /\ kinds \in { << "middleware" >>, << "prefix" >>,
                         << "middleware", "prefix" >> }

\* gm.group(1) or '' and gm.group(2) or ''
GroupMiddleware(g) ==
    IF \E i \in 1..Len(g.hdr) : g.hdr[i].kind = "middleware"
    THEN ParseMiddleware(g.hdr[CHOOSE i \in 1..Len(g.hdr) :
                                 g.hdr[i].kind = "middleware"].mw)
    ELSE <<>>

GroupPrefix(g) ==
    IF \E i \in 1..Len(g.hdr) : g.hdr[i].kind = "prefix"
    THEN g.hdr[CHOOSE i \in 1..Len(g.hdr) : g.hdr[i].kind = "prefix"].prefix
    ELSE <<>>

\* lines 398-416: the Route::verb(...) declarations of one group body
\* an inline handler function () { ... } ends the declaration with });
ClosesBlock(it) == it.tok # "group" /\ it.action.shape = "closure"

RECURSIVE BodyItems(_)
\* (.*?)\}\s*\); of group_pattern: the body is the text up to the first });
\* after the opening, which is the end of an inline handler, the end of a
\* group written inside the block, or the end of the block itself
BodyItems(items) ==
    IF items = <<>> THEN <<>>
    ELSE IF Head(items).tok = "group" THEN BodyItems(Head(items).body)
    ELSE IF ClosesBlock(Head(items)) THEN << Head(items) >>
    ELSE << Head(items) >> \o BodyItems(Tail(items))

RECURSIVE AfterBody(_)
\* the text of the block that follows the match, where finditer goes on
AfterBody(items) ==
    IF items = <<>> THEN <<>>
    ELSE IF Head(items).tok = "group" THEN AfterBody(Head(items).body) \o Tail(items)
    ELSE IF ClosesBlock(Head(items)) THEN Tail(items)
    ELSE AfterBody(Tail(items))

GroupRoutes(g) ==
    LET inner == SelectSeq(BodyItems(g.body), LAMBDA it : it.tok = "route")
    IN [ i \in 1..Len(inner) |->
           RouteOf(inner[i], JoinPrefix(GroupPrefix(g), inner[i].uri),
                   GroupMiddleware(g) \o ParseMiddleware(inner[i].mw)) ]

\* lines 381-418
RECURSIVE ParseRoutesWithGroups(_)
ParseRoutesWithGroups(content) ==
    IF content = <<>> THEN <<>>
    ELSE IF Head(content).tok = "group" /\ GroupMatches(Head(content))
    THEN GroupRoutes(Head(content))
         \o ParseRoutesWithGroups(AfterBody(Head(content).body) \o Tail(content))
    ELSE IF Head(content).tok = "group"
    THEN ParseRoutesWithGroups(Head(content).body \o Tail(content))
    ELSE ParseRoutesWithGroups(Tail(content))

(***************************************************************************)
(* parse_routes                                                             *)
(***************************************************************************)
\* faulty variant: a project without a routes directory is an error
NoRoutesDirRaises ==
    /\ rpc = "start"
    /\ ~routesDirExists
    /\ rpc' = "raised"
    /\ UNCHANGED << routesDirExists, routeDir, rqueue, route_file,
                    routes_in_file, routes >>
    /\ UNCHANGED migVars
    /\ UNCHANGED << mainVars, otherVars >>

\* lines 322-324
NoRoutesDir ==
    /\ rpc = "start"
    /\ ~routesDirExists
    /\ rpc' = "done"
    /\ UNCHANGED << routesDirExists, routeDir, rqueue, route_file,
                    routes_in_file, routes >>
    /\ UNCHANGED migVars
    /\ UNCHANGED << mainVars, otherVars >>

\* line 326: glob yields the files in some order
GlobRoutes ==
    /\ rpc = "start"
    /\ routesDirExists
    /\ \E g \in Glob(routeDir) : rqueue' = g
    /\ rpc' = "loop"
    /\ UNCHANGED << routesDirExists, routeDir, route_file, routes_in_file, routes >>
    /\ UNCHANGED migVars
    /\ UNCHANGED << mainVars, otherVars >>

\* lines 326-329: next file, its ungrouped declarations
ScanRouteFile ==
    /\ rpc = "loop"
    /\ rqueue # <<>>
    /\ route_file' = Head(rqueue)
    /\ rqueue' = Tail(rqueue)
    /\ IF Decodes(Head(rqueue).content)
       THEN /\ routes_in_file' = ParseRouteFile(Head(rqueue).content)
            /\ rpc' = "groups"
       ELSE \* lines 340-341: f.read() raises, parse_routes is left
            /\ routes_in_file' = <<>>
            /\ rpc' = "raised"
    /\ UNCHANGED << routesDirExists, routeDir, routes >>
    /\ UNCHANGED migVars
    /\ UNCHANGED << mainVars, otherVars >>

\* lines 331-334: the grouped declarations are added, the list is stored
ScanGroups ==
    /\ rpc = "groups"
    /\ routes_in_file' = routes_in_file \o ParseRoutesWithGroups(route_file.content)
    /\ routes' = DictSet(routes, route_file.stem, routes_in_file')
    /\ rpc' = "loop"
    /\ UNCHANGED << routesDirExists, routeDir, rqueue, route_file >>
    /\ UNCHANGED migVars
    /\ UNCHANGED << mainVars, otherVars >>

\* line 336
ReturnRoutes ==
    /\ rpc = "loop"
    /\ rqueue = <<>>
    /\ rpc' = "done"
    /\ UNCHANGED << routesDirExists, routeDir, rqueue, route_file,
                    routes_in_file, routes >>
    /\ UNCHANGED migVars
    /\ UNCHANGED << mainVars, otherVars >>

RouteNext ==
    \/ NoRoutesDir
    \/ GlobRoutes
    \/ ScanRouteFile
    \/ ScanGroups
    \/ ReturnRoutes

\* the state before parse_routes runs on the route files dir
RouteInitOn(exists, dir) ==
    /\ rpc = "start"
    /\ routesDirExists = exists
    /\ routeDir = dir
    /\ rqueue = <<>>
    /\ route_file = [ stem |-> "", content |-> <<>> ]
    /\ routes_in_file = <<>>
    /\ routes = <<>>
    /\ pc = "idle"
    /\ dirExists = FALSE
    /\ directory = {}
    /\ queue = <<>>
    /\ migration_file = ""
    /\ pending = <<>>
    /\ table_name = ""
    /\ ops = <<>>
    /\ op = Op("", "", "")
    /\ table_schemas = <<>>
    /\ table_indexes = <<>>
    /\ table_fks = <<>>
    /\ table_files = <<>>
    /\ result = <<>>
    /\ MainIdle
    /\ OthersIdle

(***************************************************************************)
(* Inputs: bounded sets of route documents                                  *)
(***************************************************************************)
\* number of items of one route document
MaxItems == 2

Health == RouteDecl("get", << "/", "health" >>, Tuple("HealthController", "check"), NoMw)

Users == RouteDecl("get", << "/", "users" >>, Tuple("UserController", "index"), NoMw)

Me == MwRouteDecl(MwArgs(<< "auth" >>), "get", << "/", "me" >>,
                  AtString("UserController", "me"))

\* Route::middleware('auth')->prefix('api')->group(function () { ... });
\* with the middleware as a string or an array, the calls chained with ->
\* or set apart by white space only, and the plain Route::group(...)
ApiGroups ==
    { Group(<< WithMiddleware(mw), WithPrefix(<< "api" >>) >>, sep, << Users >>) :
        mw \in { MwArgs(<< "auth" >>), MwArray(<< "auth" >>) }, sep \in { "->", " " } }
    \cup { Group(<< >>, "->", << Users >>) }

RouteItems == { Health, Me } \cup ApiGroups

RouteDocs == UNION { [ 1..n -> RouteItems ] : n \in 0..MaxItems }

RouteInit ==
    \/ RouteInitOn(FALSE, {})
    \/ \E d1 \in RouteDocs, d2 \in RouteDocs :
          RouteInitOn(TRUE, { [ stem |-> "api", content |-> d1 ],
                              [ stem |-> "web", content |-> d2 ] })

RouteSpec == RouteInit /\ [][RouteNext]_vars

(***************************************************************************)
(* C10: the document with the ungrouped GET /health -> HealthController@    *)
(* check and the group (prefix api, middleware auth) around GET /users ->   *)
(* UserController@index yields exactly the two routes; every declaration    *)
(* of a document appears exactly once in its list, a grouped one only in    *)
(* its prefixed, middleware-inheriting form.                                *)
(***************************************************************************)
IsScenarioDoc(content) ==
    /\ Len(content) = 2
    /\ content[1] = Health
    /\ content[2].tok = "group"
    /\ Len(content[2].hdr) = 2
    /\ content[2].body = << Users >>

ScenarioRoutes ==
    << [ method |-> "GET", uri |-> << "/", "health" >>,
         action |-> At("HealthController", "check"), middleware |-> <<>> ],
       [ method |-> "GET", uri |-> << "api", "/", "users" >>,
         action |-> At("UserController", "index"), middleware |-> << Mw("auth") >> ] >>

\* number of declarations of a document
Declarations(content) == Len(TextItems(content))

C10_RouteScenario ==
    rpc = "done" =>
        \A f \in routeDir :
            /\ DictHas(routes, f.stem)
            /\ Len(DictGet(routes, f.stem)) = Declarations(f.content)
            /\ IsScenarioDoc(f.content) => DictGet(routes, f.stem) = ScenarioRoutes

(***************************************************************************)
(* Inputs: groups with a prefix around one declaration.  Prefixes and URIs  *)
(* are the sequences of at most MaxPieces pieces over a slash and one word. *)
(***************************************************************************)
MaxPieces == 2

Prefixes == UNION { [ 1..n -> { "/", "api" } ] : n \in 0..MaxPieces }

\* the pattern [^'"]+ wants at least one character
Uris == UNION { [ 1..n -> { "/", "users" } ] : n \in 1..MaxPieces }

PrefixGroups ==
    { Group(<< WithPrefix(p) >>, " ",
            << RouteDecl("get", u, Tuple("UserController", "index"), NoMw) >>) :
        p \in Prefixes, u \in Uris }

PrefixInit ==
    \/ RouteInitOn(FALSE, {})
    \/ \E g \in PrefixGroups, d \in { << >>, << Health >> } :
          RouteInitOn(TRUE, { [ stem |-> "api", content |-> d \o << g >> ] })

PrefixSpec == PrefixInit /\ [][RouteNext]_vars

(***************************************************************************)
(* C11: the URI of a grouped route is the inner URI unchanged when the      *)
(* group prefix is empty; otherwise it is the prefix without its trailing   *)
(* slashes, exactly one slash, and the inner URI without its leading        *)
(* slashes.                                                                 *)
(***************************************************************************)
\* a is p without its trailing slashes
IsRStripped(a, p) ==
    /\ IsPrefix(a, p)
    /\ \A i \in (Len(a) + 1)..Len(p) : p[i] = "/"
    /\ a = <<>> \/ a[Len(a)] # "/"

\* b is u without its leading slashes
IsLStripped(b, u) ==
    /\ IsSuffix(b, u)
    /\ \A i \in 1..(Len(u) - Len(b)) : u[i] = "/"
    /\ b = <<>> \/ b[1] # "/"

IsJoin(r, p, u) ==
    IF p = <<>> THEN r = u
    ELSE \E k \in 0..Len(p), j \in 0..Len(u) :
            /\ IsRStripped(SubSeq(p, 1, k), p)
            /\ IsLStripped(SubSeq(u, j + 1, Len(u)), u)
            /\ r = SubSeq(p, 1, k) \o << "/" >> \o SubSeq(u, j + 1, Len(u))

\* the declarations inside the matched groups of a document, in text order,
\* each with the prefix of its group
GroupedDecls(content) ==
    LET groups == SelectSeq(content, LAMBDA it : it.tok = "group" /\ GroupMatches(it))
    IN Flatten([ i \in 1..Len(groups) |->
                   LET inner == SelectSeq(groups[i].body, LAMBDA it : it.tok = "route")
                   IN [ j \in 1..Len(inner) |->
                          [ group |-> groups[i], decl |-> inner[j] ] ] ])

\* the routes the group pass added to the list of a document
GroupedOutput(f) ==
    LET out == DictGet(routes, f.stem)
        n == Len(GroupedDecls(f.content))
    IN SubSeq(out, Len(out) - n + 1, Len(out))

C11_PrefixJoin ==
    rpc = "done" =>
        \A f \in routeDir :
            LET ds == GroupedDecls(f.content)
            IN /\ Len(DictGet(routes, f.stem)) >= Len(ds)
               /\ \A i \in 1..Len(ds) :
                     IsJoin(GroupedOutput(f)[i].uri,
                            GroupPrefix(ds[i].group), ds[i].decl.uri)

\* prefix 'api/' around '/users' was joined to 'api/users'
C11_Witness ==
    /\ rpc = "done"
    /\ \E f \in routeDir :
          /\ Len(f.content) = 1
          /\ GroupPrefix(f.content[1]) = << "api", "/" >>
          /\ f.content[1].body[1].uri = << "/", "users" >>
          /\ GroupedOutput(f)[1].uri = << "api", "/", "users" >>

(***************************************************************************)
(* Inputs: groups with a middleware list around one or two declarations,    *)
(* the first with a middleware list of its own.                             *)
(***************************************************************************)
\* number of names in the middleware list of a group
MaxMw == 2

MwNames == UNION { [ 1..n -> { "auth", "verified" } ] : n \in 1..MaxMw }

GroupMws == { MwArgs(ns) : ns \in MwNames } \cup { MwArray(ns) : ns \in MwNames }

RouteMws == { NoMw, MwArgs(<< "auth" >>), MwArgs(<< "admin" >>) }

MwGroups ==
    { Group(<< WithMiddleware(G) >>, " ",
            << RouteDecl("get", << "/", "users" >>, Tuple("UserController", "index"), R) >>
            \o rest) :
        G \in GroupMws, R \in RouteMws, rest \in { << >>, << Health >> } }

MwInit ==
    \/ RouteInitOn(FALSE, {})
    \/ \E g \in MwGroups :
          RouteInitOn(TRUE, { [ stem |-> "api", content |-> << g >> ] })

MwSpec == MwInit /\ [][RouteNext]_vars

(***************************************************************************)
(* C12: a route inside a group gets the middleware names the group          *)
(* declares, in declared order, followed by the names the route declares,   *)
(* duplicates kept; the next route of the group starts again from the       *)
(* group's own list.                                                        *)
(***************************************************************************)
\* the names of a middleware argument list, as declared
DeclaredNames(raw) == [ i \in 1..Len(raw.names) |-> Mw(raw.names[i]) ]

\* the middleware argument list a group declares
DeclaredGroupMw(g) ==
    IF \E i \in 1..Len(g.hdr) : g.hdr[i].kind = "middleware"
    THEN g.hdr[CHOOSE i \in 1..Len(g.hdr) : g.hdr[i].kind = "middleware"].mw
    ELSE NoMw

C12_GroupThenRouteMiddleware ==
    rpc = "done" =>
        \A f \in routeDir :
            LET ds == GroupedDecls(f.content)
            IN /\ Len(DictGet(routes, f.stem)) >= Len(ds)
               /\ \A i \in 1..Len(ds) :
                     GroupedOutput(f)[i].middleware =
                        DeclaredNames(DeclaredGroupMw(ds[i].group))
                        \o DeclaredNames(ds[i].decl.mw)

(***************************************************************************)
(* C13: the routes of a document are listed in the order of their           *)
(* declarations in the text: if one declaration stands before another, its  *)
(* route stands before the other's route in the list.                       *)
(***************************************************************************)
\* r is a route made from the declaration it
RouteFrom(r, it) ==
    /\ r.method = Upper(it.verb)
    /\ r.action = NormalizeRouteAction(it.action)
    /\ IsSuffix(LStrip(it.uri), r.uri)

C13_DeclarationOrderKept ==
    rpc = "done" =>
        \A f \in routeDir :
            LET text == TextItems(f.content)
                out == DictGet(routes, f.stem)
            IN \A i \in 1..Len(text), j \in 1..Len(text) :
                  (i < j /\ text[i] # text[j]) =>
                      \E p \in 1..Len(out), q \in 1..Len(out) :
                          /\ p < q
                          /\ RouteFrom(out[p], text[i])
                          /\ RouteFrom(out[q], text[j])

(***************************************************************************)
(* Inputs: documents of ungrouped declarations with every shape of action   *)
(* expression.                                                              *)
(***************************************************************************)
ActionExprs ==
    { mk : mk \in UNION { { Tuple(c, m), AtString(c, m), At(c, m), Mixed(c, m) } :
                            c \in { "UserController", "HealthController" },
                            m \in { "index", "check" } } }
    \cup { Closure }

ActionDecls == { RouteDecl("get", << "/", "users" >>, a, NoMw) : a \in ActionExprs }

ActionDocs == UNION { [ 1..n -> ActionDecls ] : n \in 1..MaxItems }

ActionInit ==
    \/ RouteInitOn(FALSE, {})
    \/ \E d \in ActionDocs :
          RouteInitOn(TRUE, { [ stem |-> "api", content |-> d ] })

ActionSpec == ActionInit /\ [][RouteNext]_vars

(***************************************************************************)
(* C15: the action of a route is Cls@meth when the expression holds a class *)
(* reference with a method name; otherwise the Class@method text without    *)
(* quotes when it holds one; otherwise the expression text as it is.        *)
(* Normalising the result again gives the same value.                       *)
(***************************************************************************)
HasClassTuple(a) == a.shape \in { "tuple", "mixed" }

HasAtString(a) == a.shape \in { "string", "bare", "mixed" }

\* the Class@method text the expression holds
AtStringOf(a) == IF a.shape = "mixed" THEN At("Legacy", "run") ELSE At(a.cls, a.meth)

ExpectedAction(a) ==
    IF HasClassTuple(a) THEN At(a.cls, a.meth)
    ELSE IF HasAtString(a) THEN AtStringOf(a)
    ELSE a

C15_ActionPrecedence ==
    rpc = "done" =>
        \A f \in routeDir :
            LET out == DictGet(routes, f.stem)
            IN /\ Len(out) = Len(f.content)
               /\ \A i \in 1..Len(out) :
                     /\ out[i].action = ExpectedAction(f.content[i].action)
                     /\ NormalizeRouteAction(out[i].action) = out[i].action

\* an expression with both shapes was resolved by its class reference, and
\* an inline handler kept its text
C15_Witness ==
    /\ rpc = "done"
    /\ \E f \in routeDir :
          /\ Len(f.content) = 2
          /\ f.content[1].action = Mixed("UserController", "index")
          /\ f.content[2].action = Closure
          /\ DictGet(routes, f.stem)[1].action = At("UserController", "index")
          /\ DictGet(routes, f.stem)[2].action = Closure

(***************************************************************************)
(* main: one run of the command line tool on a project directory (--dir).   *)
(* A document of the project is [class_name, methods, decodes]: the class   *)
(* it declares, whether it declares a public method, whether its bytes are  *)
(* valid UTF-8.  The project has no other directory parse_all reads than    *)
(* app/Models, app/Http/Controllers, routes, database/migrations and        *)
(* app/Services.  A key of ai_descriptions is [kind, class_name].           *)
(***************************************************************************)
Key(kind, class_name) == [ kind |-> kind, class_name |-> class_name ]

\* what a parser keeps of a document
Entity(doc) == [ class_name |-> doc.class_name, methods |-> doc.methods ]

AllDecode(docs) == \A i \in 1..Len(docs) : docs[i].decodes

Entities(docs) == [ i \in 1..Len(docs) |-> Entity(docs[i]) ]

\* the backends whose constructor wants an API key in the environment
NeedsApiKey(backend) == backend \in { "claude", "gemini" }

mainFrame == << args, env, project >>

\* line 52; ai_backend.py lines 158-163: the backend names
KnownBackends == { "claude", "claude-code", "gemini" }

\* lines 104-111: parse_args refuses an --ai-backend outside its choices;
\* the only other check made before the work begins is that of notion
Validate ==
    /\ mpc = "start"
    /\ IF \/ args.ai_backend \notin KnownBackends \cup { None }
          \/ args.output = "notion" /\ ~(env.notion_token /\ env.notion_page_id)
       THEN \* parser.error(...): the process exits with code 2
            /\ mpc' = "exited"
            /\ exit' = 2
       ELSE /\ mpc' = "target"
            /\ exit' = exit
    /\ UNCHANGED << mainFrame, backend_name, data, todo, calls, ai_descriptions, markdown,
                    written, exportTodo, exports, report >>
    /\ UNCHANGED << migVars, routeVars, otherVars >>

\* the values of --dir that do not name a directory
MissingTargets == { "missing", "regular file" }

\* faulty variant: only the first path given to --file is looked at
CheckTargetFirstFileOnly ==
    /\ mpc = "target"
    /\ IF \/ args.dir \in MissingTargets
          \/ args.file # <<>> /\ ~args.file[1].exists
       THEN /\ mpc' = "exited"
            /\ exit' = 1
       ELSE /\ mpc' = "plugin"
            /\ exit' = exit
    /\ UNCHANGED << mainFrame, backend_name, data, todo, calls, ai_descriptions, markdown,
                    written, exportTodo, exports, report >>
    /\ UNCHANGED << migVars, routeVars, otherVars >>

\* lines 113-127: sys.exit(1) when --dir does not exist or is not a
\* directory, or when a path given to --file does not exist
CheckTarget ==
    /\ mpc = "target"
    /\ IF \/ args.dir \in MissingTargets
          \/ \E i \in 1..Len(args.file) : ~args.file[i].exists
       THEN /\ mpc' = "exited"
            /\ exit' = 1
       ELSE /\ mpc' = "plugin"
            /\ exit' = exit
    /\ UNCHANGED << mainFrame, backend_name, data, todo, calls, ai_descriptions, markdown,
                    written, exportTodo, exports, report >>
    /\ UNCHANGED << migVars, routeVars, otherVars >>

\* lines 141, 319-320, 329-330
PluginNotImplemented ==
    /\ mpc = "plugin"
    /\ args.plugin # "laravel"
    /\ report' = report \cup { "plugin not implemented" }
    /\ mpc' = "done"
    /\ exit' = 0
    /\ UNCHANGED << mainFrame, backend_name, data, todo, calls, ai_descriptions, markdown,
                    written, exportTodo, exports >>
    /\ UNCHANGED << migVars, routeVars, otherVars >>

\* parser lines 873-879: the paths of --file that lie under app/Models
ModelFiles(files) == SelectSeq(files, LAMBDA f : f.models)

FileDocs(files) == [ i \in 1..Len(files) |-> files[i].doc ]

\* lines 150-161; parser lines 857-893, 77-78: parse_files reads the model
\* documents among the paths and nothing else of the project
ParseFiles ==
    /\ mpc = "plugin"
    /\ args.plugin = "laravel"
    /\ args.dir = ""
    /\ IF AllDecode(FileDocs(ModelFiles(args.file)))
       THEN /\ data' = [ NoData EXCEPT
                           !.models = Entities(FileDocs(ModelFiles(args.file))) ]
            /\ mpc' = "ai"
       ELSE /\ data' = NoData
            /\ mpc' = "except"
    /\ UNCHANGED << mainFrame, backend_name, todo, calls, ai_descriptions, markdown, written,
                    exportTodo, exports, report, exit >>
    /\ UNCHANGED << migVars, routeVars, otherVars >>

\* lines 141-149; parser lines 29-30, 48-65, 77-78
ParseModels ==
    /\ mpc = "plugin"
    /\ args.plugin = "laravel"
    /\ args.dir # ""
    /\ IF AllDecode(project.models)
       THEN /\ data' = [ data EXCEPT !.models = Entities(project.models) ]
            /\ mpc' = "controllers"
       ELSE /\ data' = NoData
            /\ mpc' = "except"
    /\ UNCHANGED << mainFrame, backend_name, todo, calls, ai_descriptions, markdown, written,
                    exportTodo, exports, report, exit >>
    /\ UNCHANGED << migVars, routeVars, otherVars >>

\* parser lines 31, 219-236, 240-241
ParseControllers ==
    /\ mpc = "controllers"
    /\ IF AllDecode(project.controllers)
       THEN /\ data' = [ data EXCEPT !.controllers = Entities(project.controllers) ]
            /\ mpc' = "routes"
       ELSE /\ data' = NoData
            /\ mpc' = "except"
    /\ UNCHANGED << mainFrame, backend_name, todo, calls, ai_descriptions, markdown, written,
                    exportTodo, exports, report, exit >>
    /\ UNCHANGED << migVars, routeVars, otherVars >>

\* parser line 32: parse_all calls parse_routes
CallParseRoutes ==
    /\ mpc = "routes"
    /\ rpc = "idle"
    /\ rpc' = "start"
    /\ UNCHANGED << routesDirExists, routeDir, rqueue, route_file, routes_in_file,
                    routes >>
    /\ UNCHANGED << mainVars, otherVars >>
    /\ UNCHANGED migVars

\* parser line 32: parse_routes has returned or raised
ReturnParseRoutes ==
    /\ mpc = "routes"
    /\ rpc \in { "done", "raised" }
    /\ IF rpc = "done"
       THEN /\ data' = [ data EXCEPT !.routes = routes ]
            /\ mpc' = "migrations"
       ELSE /\ data' = NoData
            /\ mpc' = "except"
    /\ UNCHANGED << mainFrame, backend_name, todo, calls, ai_descriptions, markdown, written,
                    exportTodo, exports, report, exit >>
    /\ UNCHANGED << migVars, routeVars, otherVars >>

\* parser line 33: parse_all calls parse_migrations
CallParseMigrations ==
    /\ mpc = "migrations"
    /\ pc = "idle"
    /\ pc' = "start"
    /\ UNCHANGED << dirExists, directory, queue, migration_file, pending,
                    table_name, ops, op, table_schemas, table_indexes, table_fks,
                    table_files, result >>
    /\ UNCHANGED << mainVars, otherVars >>
    /\ UNCHANGED routeVars

\* parser line 33: parse_migrations has returned or raised
ReturnParseMigrations ==
    /\ mpc = "migrations"
    /\ pc \in { "done", "raised" }
    /\ IF pc = "done"
       THEN /\ data' = [ data EXCEPT !.migrations = result ]
            /\ mpc' = "services"
       ELSE /\ data' = NoData
            /\ mpc' = "except"
    /\ UNCHANGED << mainFrame, backend_name, todo, calls, ai_descriptions, markdown, written,
                    exportTodo, exports, report, exit >>
    /\ UNCHANGED << migVars, routeVars, otherVars >>

\* parser lines 34, 624-642, 646-647; the remaining extractors find no directory
ParseServices ==
    /\ mpc = "services"
    /\ IF AllDecode(project.services)
       THEN /\ data' = [ data EXCEPT !.services = Entities(project.services) ]
            /\ mpc' = "ai"
       ELSE /\ data' = NoData
            /\ mpc' = "except"
    /\ UNCHANGED << mainFrame, backend_name, todo, calls, ai_descriptions, markdown, written,
                    exportTodo, exports, report, exit >>
    /\ UNCHANGED << migVars, routeVars, otherVars >>

\* line 182 with --no-ai
SkipAi ==
    /\ mpc = "ai"
    /\ args.no_ai
    /\ mpc' = "render"
    /\ UNCHANGED << mainFrame, backend_name, data, todo, calls, ai_descriptions, markdown,
                    written, exportTodo, exports, report, exit >>
    /\ UNCHANGED << migVars, routeVars, otherVars >>

Summary == [ kind |-> "project_summary", class_name |-> "", methods |-> TRUE ]

Tagged(kind, es) ==
    [ i \in 1..Len(es) |->
        [ kind |-> kind, class_name |-> es[i].class_name, methods |-> es[i].methods ] ]

\* faulty variant: the services are described before the controllers
GenerationOrderServicesFirst(d) ==
    << Summary >> \o Tagged("model", d.models) \o Tagged("service", d.services)
    \o Tagged("controller", d.controllers)

\* lines 198-240: the summary, then the loops over data['models'],
\* data['controllers'] and data['services']
GenerationOrder(d) ==
    << Summary >> \o Tagged("model", d.models) \o Tagged("controller", d.controllers)
    \o Tagged("service", d.services)

\* str.lower on a backend name or on a word of a configuration key
Lower(name) ==
    CASE name = "Gemini" -> "gemini"
      [] name = "Claude" -> "claude"
      [] name = "API" -> "api"
      [] name = "KEY" -> "key"
      [] OTHER -> name

\* ai_backend.py lines 154-165: the class get_ai_backend builds for a name,
\* "ValueError" for a name it does not know; without a name it reads the
\* environment variable AI_BACKEND
BackendFor(name, environ) ==
    LET given == IF name = None
                 THEN IF environ.AI_BACKEND = "" THEN "claude-code"
                      ELSE environ.AI_BACKEND
                 ELSE name
    IN IF Lower(given) \in KnownBackends THEN Lower(given) ELSE "ValueError"

\* line 192: backend_name = args.ai_backend or 'claude-code'
BackendName(a) == IF a.ai_backend = None THEN "claude-code" ELSE a.ai_backend

\* lines 182-196 and 244-245; ai_backend.py lines 45-48, 121-124, 154-165:
\* a name get_ai_backend does not know or a backend that finds no API key
\* raises, and the AI step is skipped
GetAiBackend ==
    /\ mpc = "ai"
    /\ ~args.no_ai
    /\ backend_name' = BackendName(args)
    /\ IF \/ BackendFor(backend_name', env) = "ValueError"
          \/ NeedsApiKey(BackendFor(backend_name', env)) /\ ~env.api_key
       THEN /\ report' = report \cup { "ai skipped" }
            /\ todo' = todo
            /\ mpc' = "render"
       ELSE /\ report' = report
            /\ todo' = GenerationOrder(data)
            /\ mpc' = "gen"
    /\ UNCHANGED << mainFrame, data, calls, ai_descriptions, markdown, written,
                    exportTodo, exports, exit >>
    /\ UNCHANGED << migVars, routeVars, otherVars >>

\* lines 222-223: a controller without methods is passed over
SkipController ==
    /\ mpc = "gen"
    /\ todo # <<>>
    /\ Head(todo).kind = "controller"
    /\ ~Head(todo).methods
    /\ todo' = Tail(todo)
    /\ UNCHANGED << mainFrame, backend_name, mpc, data, calls, ai_descriptions, markdown,
                    written, exportTodo, exports, report, exit >>
    /\ UNCHANGED << migVars, routeVars, otherVars >>

\* faulty variant: a failed call ends the generation step
GenerateAbortsOnFailure ==
    /\ mpc = "gen"
    /\ todo # <<>>
    /\ ~(Head(todo).kind = "controller" /\ ~Head(todo).methods)
    /\ LET key == Key(Head(todo).kind, Head(todo).class_name)
       IN \E ok \in BOOLEAN :
             /\ calls' = Append(calls, [ key |-> key, ok |-> ok ])
             /\ IF ok
                   THEN /\ ai_descriptions' = DictSet(ai_descriptions, key, "text")
                        /\ report' = report
                        /\ todo' = Tail(todo)
                   ELSE /\ ai_descriptions' = ai_descriptions
                        /\ report' = report \cup { "generation failed" }
                        /\ todo' = <<>>
    /\ UNCHANGED << mainFrame, backend_name, mpc, data, markdown, written, exportTodo, exports,
                    exit >>
    /\ UNCHANGED << migVars, routeVars, otherVars >>

\* lines 200-205, 211-216, 224-229, 235-240: one ai.generate call; it returns
\* a text, which is stored, or raises, which is printed
Generate ==
    /\ mpc = "gen"
    /\ todo # <<>>
    /\ ~(Head(todo).kind = "controller" /\ ~Head(todo).methods)
    /\ LET key == Key(Head(todo).kind, Head(todo).class_name)
       IN \E ok \in BOOLEAN :
             /\ calls' = Append(calls, [ key |-> key, ok |-> ok ])
             /\ IF ok
                   THEN /\ ai_descriptions' = DictSet(ai_descriptions, key, "text")
                        /\ report' = report
                   ELSE /\ ai_descriptions' = ai_descriptions
                        /\ report' = report \cup { "generation failed" }
    /\ todo' = Tail(todo)
    /\ UNCHANGED << mainFrame, backend_name, mpc, data, markdown, written, exportTodo, exports,
                    exit >>
    /\ UNCHANGED << migVars, routeVars, otherVars >>

\* line 242
GenerationDone ==
    /\ mpc = "gen"
    /\ todo = <<>>
    /\ mpc' = "render"
    /\ UNCHANGED << mainFrame, backend_name, data, todo, calls, ai_descriptions, markdown,
                    written, exportTodo, exports, report, exit >>
    /\ UNCHANGED << migVars, routeVars, otherVars >>

MarkdownOutputs == { "markdown", "markdown-multi", "notion", "notion-hier" }

\* lines 248-255
Render ==
    /\ mpc = "render"
    /\ args.output \in MarkdownOutputs
    /\ markdown' = TRUE
    /\ mpc' = "write"
    /\ UNCHANGED << mainFrame, backend_name, data, todo, calls, ai_descriptions, written,
                    exportTodo, exports, report, exit >>
    /\ UNCHANGED << migVars, routeVars, otherVars >>

\* lines 316-317, 329-330
OutputNotImplemented ==
    /\ mpc = "render"
    /\ args.output \notin MarkdownOutputs
    /\ report' = report \cup { "output not implemented" }
    /\ mpc' = "done"
    /\ exit' = 0
    /\ UNCHANGED << mainFrame, backend_name, data, todo, calls, ai_descriptions, markdown,
                    written, exportTodo, exports >>
    /\ UNCHANGED << migVars, routeVars, otherVars >>

\* markdown_generator.py lines 99-105: the parts generate_parts returns
Parts == << "overview", "db", "api", "security", "graphql" >>

\* lines 257-261, 329-330
WriteMarkdown ==
    /\ mpc = "write"
    /\ args.output = "markdown"
    /\ written' = written \cup { "spec" }
    /\ mpc' = "done"
    /\ exit' = 0
    /\ UNCHANGED << mainFrame, backend_name, data, todo, calls, ai_descriptions, markdown,
                    exportTodo, exports, report >>
    /\ UNCHANGED << migVars, routeVars, otherVars >>

\* lines 263-269, 329-330: one file per part, the single document is not written
WriteParts ==
    /\ mpc = "write"
    /\ args.output = "markdown-multi"
    /\ written' = written \cup Range(Parts)
    /\ mpc' = "done"
    /\ exit' = 0
    /\ UNCHANGED << mainFrame, backend_name, data, todo, calls, ai_descriptions, markdown,
                    exportTodo, exports, report >>
    /\ UNCHANGED << migVars, routeVars, otherVars >>

\* faulty variant: the upload starts without the local copy
WriteLocalCopySkipped ==
    /\ mpc = "write"
    /\ args.output \in { "notion", "notion-hier" }
    /\ mpc' = "creds"
    /\ UNCHANGED << mainFrame, backend_name, data, todo, calls, ai_descriptions, markdown,
                    written, exportTodo, exports, report, exit >>
    /\ UNCHANGED << migVars, routeVars, otherVars >>

\* lines 271-276
WriteLocalCopy ==
    /\ mpc = "write"
    /\ args.output \in { "notion", "notion-hier" }
    /\ written' = written \cup { "spec" }
    /\ mpc' = "creds"
    /\ UNCHANGED << mainFrame, backend_name, data, todo, calls, ai_descriptions, markdown,
                    exportTodo, exports, report, exit >>
    /\ UNCHANGED << migVars, routeVars, otherVars >>

\* notion_exporter.py lines 68-76, 96-123, 139-161: the pages.create calls of
\* upload_markdown, upload_hierarchy and upload_hierarchy_flat, for parts of
\* at most 100 blocks
ExportCalls(a) ==
    IF a.output = "notion" THEN << "page" >>
    ELSE IF a.notion_flat THEN Parts
    ELSE << "root" >> \o Parts

\* line 281; notion_exporter.py lines 181-194
GetNotionCredentials ==
    /\ mpc = "creds"
    /\ IF env.notion_token /\ env.notion_page_id
       THEN /\ exportTodo' = ExportCalls(args)
            /\ mpc' = "export"
       ELSE \* ValueError, outside the try of line 283
            /\ exportTodo' = exportTodo
            /\ mpc' = "except"
    /\ UNCHANGED << mainFrame, backend_name, data, todo, calls, ai_descriptions, markdown,
                    written, exports, report, exit >>
    /\ UNCHANGED << migVars, routeVars, otherVars >>

\* lines 283-314, 329-330: one call to the workspace; a failure is printed
\* and main goes on to its end
ExportCall ==
    /\ mpc = "export"
    /\ exportTodo # <<>>
    /\ exports' = Append(exports, Head(exportTodo))
    /\ \E ok \in BOOLEAN :
          IF ok
          THEN /\ exportTodo' = Tail(exportTodo)
               /\ UNCHANGED << mpc, report, exit >>
          ELSE /\ exportTodo' = <<>>
               /\ report' = report \cup { "export failed" }
               /\ mpc' = "done"
               /\ exit' = 0
    /\ UNCHANGED << mainFrame, backend_name, data, todo, calls, ai_descriptions, markdown,
                    written >>
    /\ UNCHANGED << migVars, routeVars, otherVars >>

\* lines 287, 312, 329-330
ExportDone ==
    /\ mpc = "export"
    /\ exportTodo = <<>>
    /\ mpc' = "done"
    /\ exit' = 0
    /\ UNCHANGED << mainFrame, backend_name, data, todo, calls, ai_descriptions, markdown,
                    written, exportTodo, exports, report >>
    /\ UNCHANGED << migVars, routeVars, otherVars >>

\* lines 322-327
Except ==
    /\ mpc = "except"
    /\ report' = report \cup { "error" }
    /\ mpc' = "done"
    /\ exit' = 1
    /\ UNCHANGED << mainFrame, backend_name, data, todo, calls, ai_descriptions, markdown,
                    written, exportTodo, exports >>
    /\ UNCHANGED << migVars, routeVars, otherVars >>

MainNext ==
    \/ Validate
    \/ CheckTarget
    \/ PluginNotImplemented
    \/ ParseFiles
    \/ ParseModels
    \/ ParseControllers
    \/ CallParseRoutes
    \/ RouteNext
    \/ ReturnParseRoutes
    \/ CallParseMigrations
    \/ Next
    \/ ReturnParseMigrations
    \/ ParseServices
    \/ SkipAi
    \/ GetAiBackend
    \/ SkipController
    \/ Generate
    \/ GenerationDone
    \/ Render
    \/ OutputNotImplemented
    \/ WriteMarkdown
    \/ WriteParts
    \/ WriteLocalCopy
    \/ GetNotionCredentials
    \/ ExportCall
    \/ ExportDone
    \/ Except

(***************************************************************************)
(* Inputs: bounded sets of projects, command lines and environments         *)
(***************************************************************************)
\* number of documents in app/Models, app/Http/Controllers and app/Services
\* together
MaxEntities == 3

Doc(class_name, methods) ==
    [ class_name |-> class_name, methods |-> methods, decodes |-> TRUE ]

ModelDocs == { Doc("User", TRUE), Doc("Post", TRUE) }

\* HomeController declares no public method
ControllerDocs == { Doc("UserController", TRUE), Doc("HomeController", FALSE) }

ServiceDocs == { Doc("Mailer", TRUE) }

DocSeqs(S) == UNION { [ 1..n -> S ] : n \in 0..MaxEntities }

Projects ==
    { pr \in [ models : DocSeqs(ModelDocs), controllers : DocSeqs(ControllerDocs),
               services : DocSeqs(ServiceDocs) ] :
        Len(pr.models) + Len(pr.controllers) + Len(pr.services) <= MaxEntities }

\* the project with the i-th document of one directory not valid UTF-8
Corrupt(pr, kind, i) ==
    CASE kind = "models" ->
            [ pr EXCEPT !.models[i].decodes = FALSE ]
      [] kind = "controllers" ->
            [ pr EXCEPT !.controllers[i].decodes = FALSE ]
      [] kind = "services" ->
            [ pr EXCEPT !.services[i].decodes = FALSE ]

CorruptProjects ==
    UNION { { Corrupt(pr, "models", i) : i \in 1..Len(pr.models) }
            \cup { Corrupt(pr, "controllers", i) : i \in 1..Len(pr.controllers) }
            \cup { Corrupt(pr, "services", i) : i \in 1..Len(pr.services) } :
            pr \in Projects }

UndecodableRoutes ==
    << [ tok |-> "undecodable", verb |-> "", uri |-> <<>>, action |-> At("", ""),
         mw |-> NoMw, hdr |-> <<>>, sep |-> "", body |-> <<>> ] >>

UndecodableMigration ==
    << [ tok |-> "undecodable", kind |-> "", table |-> "", body |-> <<>> ] >>

UsersMigration == << Block("create", "users", << Call("string", "title") >>) >>

\* routes/api.php and database/migrations/2024_01_a.php of a project:
\* [exists, routes, migration]; the plain project has a second migration
\* document, without any block
Dirs ==
    { [ name |-> "none", exists |-> FALSE, routes |-> <<>>, migration |-> <<>> ],
      [ name |-> "empty", exists |-> TRUE, routes |-> <<>>, migration |-> <<>> ],
      [ name |-> "plain", exists |-> TRUE, routes |-> << Health >>,
        migration |-> UsersMigration ],
      [ name |-> "routes", exists |-> TRUE, routes |-> UndecodableRoutes,
        migration |-> UsersMigration ],
      [ name |-> "migration", exists |-> TRUE, routes |-> << Health >>,
        migration |-> UndecodableMigration ] }

Cmd(plugin, output, flat, no_ai, backend) ==
    [ plugin |-> plugin, output |-> output, no_ai |-> no_ai,
      ai_backend |-> backend, notion_flat |-> flat,
      dir |-> "project", file |-> <<>> ]

\* the command line a with --dir dir, or with --file file when dir is ""
OnTarget(a, dir, file) == [ a EXCEPT !.dir = dir, !.file = file ]

Environ(token, page, key) ==
    [ notion_token |-> token, notion_page_id |-> page, api_key |-> key,
      AI_BACKEND |-> "" ]

DefaultConfig ==
    [ args |-> Cmd("laravel", "markdown", FALSE, TRUE, "claude-code"),
      env |-> Environ(FALSE, FALSE, FALSE) ]

\* [output, notion_flat, token, page]
OutputConfigs ==
    { << o, FALSE, FALSE, FALSE >> : o \in { "markdown", "markdown-multi", "json" } }
    \cup { << o, FALSE, t, pg >> : o \in { "notion", "notion-hier" },
                                   t \in BOOLEAN, pg \in BOOLEAN }
    \cup { << "notion-hier", TRUE, TRUE, TRUE >> }

\* [no_ai, ai_backend, api key]
AiConfigs ==
    { << TRUE, "claude-code", FALSE >>, << FALSE, "claude-code", FALSE >> }
    \cup { << FALSE, b, k >> : b \in { "claude", "gemini" }, k \in BOOLEAN }

\* command lines without --ai-backend under the values of the environment
\* variable AI_BACKEND, and one with a name outside the choices
BackendConfigs ==
    { [ args |-> Cmd("laravel", "markdown", FALSE, FALSE, None),
        env |-> [ Environ(FALSE, FALSE, k) EXCEPT !.AI_BACKEND = e ] ] :
        e \in { "", "gemini", "Claude", "openai" }, k \in BOOLEAN }
    \cup { [ args |-> Cmd("laravel", "markdown", FALSE, FALSE, "openai"),
             env |-> Environ(FALSE, FALSE, TRUE) ] }

Configs ==
    { [ args |-> Cmd("laravel", o[1], o[2], a[1], a[2]),
        env |-> Environ(o[3], o[4], a[3]) ] : o \in OutputConfigs, a \in AiConfigs }
    \cup BackendConfigs
    \cup { [ args |-> Cmd(pl, "markdown", FALSE, TRUE, "claude-code"),
             env |-> Environ(FALSE, FALSE, FALSE) ] : pl \in { "python", "java" } }

\* the state when main is started
MainInitOn(pr, d, c) ==
    /\ mpc = "start"
    /\ args = c.args
    /\ env = c.env
    /\ project = pr
    /\ data = NoData
    /\ todo = <<>>
    /\ calls = <<>>
    /\ ai_descriptions = <<>>
    /\ markdown = FALSE
    /\ written = {}
    /\ exportTodo = <<>>
    /\ exports = <<>>
    /\ report = {}
    /\ exit = ""
    /\ backend_name = ""
    /\ OthersIdle
    /\ rpc = "idle"
    /\ routesDirExists = d.exists
    /\ routeDir = IF d.exists THEN { [ stem |-> "api", content |-> d.routes ] } ELSE {}
    /\ rqueue = <<>>
    /\ route_file = [ stem |-> "", content |-> <<>> ]
    /\ routes_in_file = <<>>
    /\ routes = <<>>
    /\ pc = "idle"
    /\ dirExists = d.exists
    /\ directory = IF d.exists
                   THEN { [ name |-> "2024_01_a.php", content |-> d.migration ] }
                        \cup IF d.name = "plain"
                             THEN { [ name |-> "2024_02_b.php", content |-> <<>> ] }
                             ELSE {}
                   ELSE {}
    /\ queue = <<>>
    /\ migration_file = ""
    /\ pending = <<>>
    /\ table_name = ""
    /\ ops = <<>>
    /\ op = Op("", "", "")
    /\ table_schemas = <<>>
    /\ table_indexes = <<>>
    /\ table_fks = <<>>
    /\ table_files = <<>>
    /\ result = <<>>

\* number of paths given to --file
MaxFiles == 2

\* a path given to --file: [exists, models, doc], models when it lies under
\* app/Models
Path(exists, models, doc) == [ exists |-> exists, models |-> models, doc |-> doc ]

Paths ==
    { Path(TRUE, TRUE, Doc("User", TRUE)),
      Path(TRUE, TRUE, [ Doc("Post", TRUE) EXCEPT !.decodes = FALSE ]),
      Path(TRUE, FALSE, Doc("UserController", TRUE)),
      Path(FALSE, TRUE, Doc("Gone", TRUE)) }

FileLists == UNION { [ 1..n -> Paths ] : n \in 1..MaxFiles }

\* the command lines tried on a missing --dir and on --file
TargetConfigs ==
    { DefaultConfig,
      [ args |-> Cmd("laravel", "markdown", FALSE, FALSE, "claude-code"),
        env |-> Environ(FALSE, FALSE, FALSE) ],
      [ args |-> Cmd("laravel", "notion", FALSE, TRUE, "claude-code"),
        env |-> Environ(FALSE, TRUE, FALSE) ],
      [ args |-> Cmd("laravel", "notion", FALSE, TRUE, "claude-code"),
        env |-> Environ(TRUE, TRUE, FALSE) ],
      [ args |-> Cmd("java", "markdown", FALSE, TRUE, "claude-code"),
        env |-> Environ(FALSE, FALSE, FALSE) ] }

Targets ==
    { << dir, <<>> >> : dir \in MissingTargets }
    \cup { << "", file >> : file \in FileLists }

\* every project with every command line on the plain directories; the other
\* directories and the undecodable documents with the default command line;
\* the missing --dir and the --file lists on the plain directories
MainInit ==
    \/ \E pr \in Projects \cup CorruptProjects, d \in Dirs, c \in Configs :
          /\ \/ d.name = "plain" /\ pr \in Projects
             \/ d.name = "plain" /\ c = DefaultConfig
             \/ pr \in Projects /\ c = DefaultConfig
          /\ MainInitOn(pr, d, c)
    \/ \E t \in Targets, d \in Dirs, c \in TargetConfigs :
          /\ d.name = "plain"
          /\ MainInitOn(NoProject, d,
                        [ c EXCEPT !.args = OnTarget(c.args, t[1], t[2]) ])

MainSpec == MainInit /\ [][MainNext]_vars

(***************************************************************************)
(* C14: a route document without any recognisable declaration gets an       *)
(* empty route list, a migration document without any create/alter block    *)
(* contributes to no table, a project without routes or migrations          *)
(* directory gets the empty mapping and the empty list, and none of these   *)
(* raises.                                                                  *)
(***************************************************************************)
NoDeclaration(content) == Decodes(content) /\ TextItems(content) = <<>>

NoBlock(content) == Decodes(content) /\ AllBlocks(content) = <<>>

C14_EmptyInputs ==
    /\ (\A f \in routeDir : NoDeclaration(f.content)) => rpc # "raised"
    /\ (\A f \in directory : NoBlock(f.content)) => pc # "raised"
    /\ ((\A f \in routeDir : NoDeclaration(f.content))
        /\ (\A f \in directory : NoBlock(f.content))
        /\ AllDecode(project.models) /\ AllDecode(project.controllers)
        /\ AllDecode(project.services)) =>
           \* extraction has not failed the run
           (mpc = "except" => markdown)
    /\ rpc = "done" =>
          /\ ~routesDirExists => routes = <<>>
          /\ \A f \in routeDir :
                NoDeclaration(f.content) =>
                    DictHas(routes, f.stem) /\ DictGet(routes, f.stem) = <<>>
    /\ pc = "done" =>
          /\ ~dirExists => result = <<>>
          /\ \A f \in directory :
                NoBlock(f.content) =>
                    \A i \in 1..Len(result) : f.name \notin Range(result[i].files)
          /\ (\A f \in directory : NoBlock(f.content)) => result = <<>>

\* a run on a project whose only route document and only migration document
\* are empty has come to its end
C14_Witness ==
    /\ mpc = "done"
    /\ exit = 0
    /\ routesDirExists
    /\ dirExists
    /\ \A f \in routeDir : f.content = <<>>
    /\ \A f \in directory : f.content = <<>>
    /\ routes = << [ k |-> "api", v |-> <<>> ] >>
    /\ result = <<>>
    /\ data.routes = routes

(***************************************************************************)
(* C16: a document that is not valid UTF-8 fails no extractor: no parser    *)
(* raises, the other documents are processed, and the run ends with its     *)
(* output written.                                                          *)
(***************************************************************************)
HasUndecodableDoc ==
    \/ \E f \in routeDir : ~Decodes(f.content)
    \/ \E f \in directory : ~Decodes(f.content)
    \/ ~AllDecode(project.models)
    \/ ~AllDecode(project.controllers)
    \/ ~AllDecode(project.services)

C16_UndecodableNeverFails ==
    HasUndecodableDoc =>
        /\ rpc # "raised"
        /\ pc # "raised"
        /\ mpc # "except"
        /\ mpc = "done" => exit = 0 /\ written # {}

(***************************************************************************)
(* C17: a generation call that raises leaves no entry for its entity and    *)
(* stops nothing: every later call is issued, the document is rendered,     *)
(* and ai_descriptions holds an entry exactly for the keys of the calls     *)
(* that succeeded.                                                          *)
(***************************************************************************)
\* the entities main asks a description for, in the order of data
Described(d) ==
    << Key("project_summary", "") >>
    \o [ i \in 1..Len(d.models) |-> Key("model", d.models[i].class_name) ]
    \o LET cs == SelectSeq(d.controllers, LAMBDA c : c.methods)
       IN [ i \in 1..Len(cs) |-> Key("controller", cs[i].class_name) ]
    \o [ i \in 1..Len(d.services) |-> Key("service", d.services[i].class_name) ]

CallKeys == [ i \in 1..Len(calls) |-> calls[i].key ]

AfterGeneration == mpc \in { "render", "write", "creds", "export", "except", "done", "exited" }

BackendAvailable == ~NeedsApiKey(args.ai_backend) \/ env.api_key

EveryEntity(d) ==
    << Key("project_summary", "") >>
    \o [ i \in 1..Len(d.models) |-> Key("model", d.models[i].class_name) ]
    \o [ i \in 1..Len(d.controllers) |-> Key("controller", d.controllers[i].class_name) ]
    \o [ i \in 1..Len(d.services) |-> Key("service", d.services[i].class_name) ]

ExtractionFinished ==
    /\ mpc \notin { "start", "target", "plugin", "controllers", "routes", "migrations",
                    "services" }
    /\ IF args.dir # ""
       THEN /\ data.models = Entities(project.models)
            /\ data.controllers = Entities(project.controllers)
            /\ data.services = Entities(project.services)
            /\ rpc = "done"
            /\ pc = "done"
       ELSE \* --file: parse_files reads the model documents among the paths
            data = [ NoData EXCEPT
                       !.models = Entities(FileDocs(ModelFiles(args.file))) ]

\* the generation step was entered and has come to its end
GenerationOver ==
    /\ ~args.no_ai
    /\ BackendAvailable
    /\ ExtractionFinished
    /\ mpc \notin { "ai", "gen" }

C18_OneCallPerEntity == GenerationOver => CallKeys = EveryEntity(data)

(***************************************************************************)
(* C18 amended: the calls are the project summary, then one call for each   *)
(* recovered model, each recovered controller that has a method, and each   *)
(* recovered service, in list order, one call per step; no call is issued   *)
(* before extraction has finished, with --no-ai or without a backend.       *)
(***************************************************************************)
C18_Calls ==
    /\ calls # <<>> => ExtractionFinished /\ ~args.no_ai /\ BackendAvailable
    /\ IsPrefix(CallKeys, Described(data))
    /\ GenerationOver => CallKeys = Described(data)

C18_Step == Len(calls') <= Len(calls) + 1 /\ IsPrefix(calls, calls')

C18_GenerationOrder == []C18_Calls /\ [][C18_Step]_vars

\* two models, a controller with methods, one without, and every call made
C18_Witness ==
    /\ mpc = "done"
    /\ Len(data.models) = 2
    /\ data.models[1].class_name # data.models[2].class_name
    /\ Len(data.controllers) = 1
    /\ CallKeys = << Key("project_summary", ""),
                     Key("model", data.models[1].class_name),
                     Key("model", data.models[2].class_name),
                     Key("controller", "UserController") >>

(***************************************************************************)
(* C19: a run started without a credential it needs (the workspace token    *)
(* and page for notion and notion-hier, the API key of the selected         *)
(* backend) ends with an error before any extraction, generation,           *)
(* rendering or file write.                                                 *)
(***************************************************************************)
MissingCredential ==
    \/ /\ args.output \in { "notion", "notion-hier" }
       /\ ~(env.notion_token /\ env.notion_page_id)
    \/ /\ ~args.no_ai
       /\ NeedsApiKey(args.ai_backend)
       /\ ~env.api_key

C19_MissingCredentialStopsFirst ==
    (args.plugin = "laravel" /\ MissingCredential) =>
        /\ mpc \in { "start", "exited" }
        /\ data = NoData
        /\ calls = <<>>
        /\ ~markdown
        /\ written = {}

(***************************************************************************)
(* C20: for notion and notion-hier the rendered document is written to the  *)
(* local file before the first call to the workspace, and when a call       *)
(* fails the file stays written, the failure is printed and main returns.   *)
(***************************************************************************)
C20_Written ==
    /\ (exports # <<>> \/ exportTodo # <<>>) =>
          "spec" \in written /\ args.output \in { "notion", "notion-hier" }
    /\ "export failed" \in report =>
          /\ "spec" \in written
          /\ "error" \notin report
          /\ mpc = "done"
          /\ exit = 0

C20_Step == written \subseteq written'

C20_LocalCopyFirst == []C20_Written /\ [][C20_Step]_vars

\* the second call of a hierarchy upload failed
C20_Witness ==
    /\ "export failed" \in report
    /\ args.output = "notion-hier"
    /\ Len(exports) = 2
    /\ mpc = "done"
    /\ "spec" \in written

(***************************************************************************)
(* C21: a missing input ends the run at once.  When --dir names a path that *)
(* does not exist or is not a directory, or a path given to --file does not *)
(* exist, the process exits and no parser, no text-generation call, no      *)
(* render, no write and no export is performed; a run that reaches its end  *)
(* without the top-level handler returns 0.                                 *)
(***************************************************************************)
MissingInput ==
    \/ args.dir \in MissingTargets
    \/ \E i \in 1..Len(args.file) : ~args.file[i].exists

NothingPerformed ==
    /\ data = NoData
    /\ rpc = "idle"
    /\ pc = "idle"
    /\ todo = <<>>
    /\ calls = <<>>
    /\ ~markdown
    /\ written = {}
    /\ exports = <<>>

\* lines 107-111 come before lines 113-127
CredentialCheckFails ==
    args.output = "notion" /\ ~(env.notion_token /\ env.notion_page_id)

CompletedWithoutError == mpc = "done" /\ "error" \notin report

\* C21 as stated: the exit code of a run on a missing input is always 1
C21_MissingInputExitsOne ==
    /\ MissingInput =>
          /\ NothingPerformed
          /\ mpc \in { "start", "target", "exited" }
          /\ mpc = "exited" => exit = 1
    /\ CompletedWithoutError => exit = 0

\* C21: a run on a missing input performs nothing and exits with code 1, or
\* with code 2 when --output notion lacks a credential, which is looked at
\* first; a run that ends without the top-level handler returns 0
C21_MissingInputFatal ==
    /\ MissingInput =>
          /\ NothingPerformed
          /\ mpc \in { "start", "target", "exited" }
          /\ mpc = "exited" => exit = IF CredentialCheckFails THEN 2 ELSE 1
    /\ CompletedWithoutError => exit = 0

\* a second path of --file is missing and the run has exited with 1
C21_Witness ==
    /\ Len(args.file) = 2
    /\ args.file[1].exists
    /\ ~args.file[2].exists
    /\ mpc = "exited"
    /\ exit = 1

\* a missing --dir with --output notion and no token: exit code 2
C21_NotionExitsTwo ==
    /\ args.dir \in MissingTargets
    /\ CredentialCheckFails
    /\ mpc = "exited"
    /\ exit = 2

(***************************************************************************)
(* NotionExporter: one call of upload_markdown, upload_hierarchy or         *)
(* upload_hierarchy_flat against a workspace.                               *)
(* A line of a Markdown document is [prefix, body]: the marker it starts    *)
(* with ("### ", "## ", "# ", "- " or "") and what follows; a line with an  *)
(* empty body is blank.  A page of the workspace is [parent, title,         *)
(* children]; its id is its index in pages.                                 *)
(***************************************************************************)
\* Notion API limit: blocks of one request (line 80)
BlockLimit == 100

Line(prefix, body) == [ prefix |-> prefix, body |-> body ]

BlankLine == Line("", <<>>)

Min(a, b) == IF a < b THEN a ELSE b

\* lines 26-60: the block of a line that is not blank
LineToBlock(line) ==
    [ type |-> CASE line.prefix = "### " -> "heading_3"
                 [] line.prefix = "## " -> "heading_2"
                 [] line.prefix = "# " -> "heading_1"
                 [] line.prefix = "- " -> "bulleted_list_item"
                 [] OTHER -> "paragraph",
      content |-> line.body ]

\* lines 62-69: one block per line that is not blank, in line order
MarkdownToBlocks(md) ==
    LET kept == SelectSeq(md, LAMBDA line : line # BlankLine)
    IN [ i \in 1..Len(kept) |-> LineToBlock(kept[i]) ]

\* blocks[:100]
FirstBlocks(bs) == SubSeq(bs, 1, Min(BlockLimit, Len(bs)))

\* blocks[i:i + 100]
Chunk(bs, i) == SubSeq(bs, i + 1, Min(i + BlockLimit, Len(bs)))

\* the id of the page the call receives as parent_page_id
Destination == 1

\* response.get("url", "") of the page with this id
Url(id) == << "url", id >>

Page(parent, title, children) ==
    [ parent |-> parent, title |-> title, children |-> children ]

Request(o, page, size) == [ op |-> o, page |-> page, size |-> size ]

\* lines 109, 143
order == << "overview", "db", "api", "security", "graphql" >>

\* main.py lines 299-305: the titles main gives to upload_hierarchy_flat
TitleMap(key) ==
    CASE key = "overview" -> "title of overview"
      [] key = "db" -> "title of db"
      [] key = "api" -> "title of api"
      [] key = "security" -> "title of security"
      [] key = "graphql" -> "title of graphql"
      [] OTHER -> key

\* the title of the child page of a section
ChildTitle(method, key) ==
    IF method = "upload_hierarchy_flat" THEN TitleMap(key) ELSE key

exporterFrame == << nargs >>

\* faulty variant: the page is created with every block of the document
CreatePageUnbounded ==
    /\ npc = "start"
    /\ nargs.method = "upload_markdown"
    /\ blocks' = MarkdownToBlocks(nargs.markdown)
    /\ \E ok \in BOOLEAN :
          IF ok
          THEN /\ pages' = Append(pages, Page(Destination, nargs.title, blocks'))
               /\ requests' = Append(requests,
                                     Request("create", Destination, Len(blocks')))
               /\ page_id' = Len(pages) + 1
               /\ offset' = BlockLimit
               /\ npc' = "append"
          ELSE /\ UNCHANGED << pages, requests, page_id, offset >>
               /\ npc' = "raised"
    /\ UNCHANGED << exporterFrame, keys, root_id, urls, nresult >>
    /\ UNCHANGED << migVars, routeVars, mainVars, jsonVars, configVars >>

\* lines 73-85: upload_markdown creates the page with the first blocks
CreatePage ==
    /\ npc = "start"
    /\ nargs.method = "upload_markdown"
    /\ blocks' = MarkdownToBlocks(nargs.markdown)
    /\ \E ok \in BOOLEAN :
          IF ok
          THEN /\ pages' = Append(pages, Page(Destination, nargs.title,
                                              FirstBlocks(blocks')))
               /\ requests' = Append(requests,
                                     Request("create", Destination,
                                             Len(FirstBlocks(blocks'))))
               /\ page_id' = Len(pages) + 1
               /\ offset' = BlockLimit
               /\ npc' = "append"
          ELSE /\ UNCHANGED << pages, requests, page_id, offset >>
               /\ npc' = "raised"
    /\ UNCHANGED << exporterFrame, keys, root_id, urls, nresult >>
    /\ UNCHANGED << migVars, routeVars, mainVars, jsonVars, configVars >>

\* lines 88-90, 126-129, 167-170: one pass of the append loop
AppendChunk ==
    /\ npc = "append"
    /\ offset < Len(blocks)
    /\ \E ok \in BOOLEAN :
          IF ok
          THEN /\ pages' = [ pages EXCEPT
                               ![page_id].children = @ \o Chunk(blocks, offset) ]
               /\ requests' = Append(requests,
                                     Request("append", page_id,
                                             Len(Chunk(blocks, offset))))
               /\ offset' = offset + BlockLimit
               /\ npc' = npc
          ELSE /\ UNCHANGED << pages, requests, offset >>
               /\ npc' = "raised"
    /\ UNCHANGED << exporterFrame, blocks, page_id, keys, root_id, urls, nresult >>
    /\ UNCHANGED << migVars, routeVars, mainVars, jsonVars, configVars >>

\* line 92
ReturnUrl ==
    /\ npc = "append"
    /\ offset >= Len(blocks)
    /\ nargs.method = "upload_markdown"
    /\ nresult' = Url(page_id)
    /\ npc' = "done"
    /\ UNCHANGED << exporterFrame, blocks, page_id, offset, keys, root_id, urls,
                    pages, requests >>
    /\ UNCHANGED << migVars, routeVars, mainVars, jsonVars, configVars >>

\* faulty variant: the parent page is not created and the sections go under
\* the destination
CreateRootSkipped ==
    /\ npc = "start"
    /\ nargs.method = "upload_hierarchy"
    /\ root_id' = Destination
    /\ keys' = order
    /\ npc' = "children"
    /\ UNCHANGED << exporterFrame, blocks, page_id, offset, urls, pages, requests,
                    nresult >>
    /\ UNCHANGED << migVars, routeVars, mainVars, jsonVars, configVars >>

\* lines 99-109: upload_hierarchy creates the parent page, without blocks
CreateRoot ==
    /\ npc = "start"
    /\ nargs.method = "upload_hierarchy"
    /\ \E ok \in BOOLEAN :
          IF ok
          THEN /\ pages' = Append(pages, Page(Destination, nargs.title, <<>>))
               /\ requests' = Append(requests, Request("create", Destination, 0))
               /\ root_id' = Len(pages) + 1
               /\ keys' = order
               /\ npc' = "children"
          ELSE /\ UNCHANGED << pages, requests, root_id, keys >>
               /\ npc' = "raised"
    /\ UNCHANGED << exporterFrame, blocks, page_id, offset, urls, nresult >>
    /\ UNCHANGED << migVars, routeVars, mainVars, jsonVars, configVars >>

\* lines 142-143: upload_hierarchy_flat creates no parent page
EnterFlat ==
    /\ npc = "start"
    /\ nargs.method = "upload_hierarchy_flat"
    /\ root_id' = Destination
    /\ keys' = order
    /\ npc' = "children"
    /\ UNCHANGED << exporterFrame, blocks, page_id, offset, urls, pages, requests,
                    nresult >>
    /\ UNCHANGED << migVars, routeVars, mainVars, jsonVars, configVars >>

\* lines 111-112, 145-146: a section that parts does not hold
SkipSection ==
    /\ npc = "children"
    /\ keys # <<>>
    /\ ~DictHas(nargs.parts, Head(keys))
    /\ keys' = Tail(keys)
    /\ UNCHANGED << exporterFrame, npc, blocks, page_id, offset, root_id, urls,
                    pages, requests, nresult >>
    /\ UNCHANGED << migVars, routeVars, mainVars, jsonVars, configVars >>

\* lines 113-124, 147-166: the child page of a section, with its first
\* blocks; upload_hierarchy_flat takes the page id from the response
CreateChild ==
    /\ npc = "children"
    /\ keys # <<>>
    /\ DictHas(nargs.parts, Head(keys))
    /\ blocks' = MarkdownToBlocks(DictGet(nargs.parts, Head(keys)))
    /\ \E ok \in BOOLEAN :
          IF ok
          THEN /\ pages' = Append(pages, Page(root_id,
                                              ChildTitle(nargs.method, Head(keys)),
                                              FirstBlocks(blocks')))
               /\ requests' = Append(requests,
                                     Request("create", root_id,
                                             Len(FirstBlocks(blocks'))))
               /\ urls' = IF nargs.method = "upload_hierarchy_flat"
                          THEN DictSet(urls, Head(keys), Url(Len(pages) + 1))
                          ELSE urls
               /\ page_id' = IF nargs.method = "upload_hierarchy_flat"
                             THEN Len(pages) + 1
                             ELSE page_id
               /\ IF Len(blocks') > BlockLimit
                  THEN /\ keys' = keys
                       /\ offset' = BlockLimit
                       /\ npc' = IF nargs.method = "upload_hierarchy_flat"
                                 THEN "append"
                                 ELSE "search"
                  ELSE /\ keys' = Tail(keys)
                       /\ offset' = offset
                       /\ npc' = npc
          ELSE /\ UNCHANGED << pages, requests, urls, page_id, keys, offset >>
               /\ npc' = "raised"
    /\ UNCHANGED << exporterFrame, root_id, nresult >>
    /\ UNCHANGED << migVars, routeVars, mainVars, jsonVars, configVars >>

\* the pages a title search can list first
Titled(title) == { id \in 1..Len(pages) : pages[id].title = title }

\* line 125: upload_hierarchy looks the child page up by its title and takes
\* the first result; the workspace lists the pages of that title in an
\* order of its own
SearchPage ==
    /\ npc = "search"
    /\ \E id \in Titled(Head(keys)) :
          /\ page_id' = id
          /\ requests' = Append(requests, Request("search", id, 0))
    /\ npc' = "append"
    /\ UNCHANGED << exporterFrame, blocks, offset, keys, root_id, urls, pages,
                    nresult >>
    /\ UNCHANGED << migVars, routeVars, mainVars, jsonVars, configVars >>

\* lines 110, 144: the append loop of a section is over
NextSection ==
    /\ npc = "append"
    /\ offset >= Len(blocks)
    /\ nargs.method # "upload_markdown"
    /\ keys' = Tail(keys)
    /\ npc' = "children"
    /\ UNCHANGED << exporterFrame, blocks, page_id, offset, root_id, urls, pages,
                    requests, nresult >>
    /\ UNCHANGED << migVars, routeVars, mainVars, jsonVars, configVars >>

\* lines 131, 172
ReturnHierarchy ==
    /\ npc = "children"
    /\ keys = <<>>
    /\ nresult' = IF nargs.method = "upload_hierarchy_flat" THEN urls
                  ELSE Url(root_id)
    /\ npc' = "done"
    /\ UNCHANGED << exporterFrame, blocks, page_id, offset, keys, root_id, urls,
                    pages, requests >>
    /\ UNCHANGED << migVars, routeVars, mainVars, jsonVars, configVars >>

NotionNext ==
    \/ CreatePage
    \/ AppendChunk
    \/ ReturnUrl
    \/ CreateRoot
    \/ EnterFlat
    \/ SkipSection
    \/ CreateChild
    \/ SearchPage
    \/ NextSection
    \/ ReturnHierarchy

(***************************************************************************)
(* Inputs: bounded sets of documents, parts and workspaces                  *)
(***************************************************************************)
\* number of lines of the document given to upload_markdown
MaxLines == 205

\* number of sections of parts that are longer than one request
MaxLong == 1

LinePrefixes == << "### ", "## ", "# ", "- ", "" >>

\* a document of n lines about key; with blanks every third line is blank
Document(key, n, blanks) ==
    [ i \in 1..n |->
        IF blanks /\ i % 3 = 0 THEN BlankLine
        ELSE Line(LinePrefixes[(i % 5) + 1], << key, i >>) ]

Markdowns == { Document("spec", n, b) : n \in 0..MaxLines, b \in BOOLEAN }

ShortPart(key) == Document(key, 2, FALSE)

LongPart(key) == Document(key, BlockLimit + 1, FALSE)

\* "misc" is a key upload_hierarchy does not know
PartKeys == << "overview", "db", "api", "security", "graphql", "misc" >>

\* the dict with a short part for the keys of present, a long one for those
\* of long
PartsOf(present, long) ==
    LET ks == SelectSeq(PartKeys, LAMBDA k : k \in present \cup long)
    IN [ i \in 1..Len(ks) |->
           [ k |-> ks[i],
             v |-> IF ks[i] \in long THEN LongPart(ks[i]) ELSE ShortPart(ks[i]) ] ]

PartDicts ==
    { PartsOf(present, long) :
        present \in SUBSET Range(PartKeys),
        long \in { l \in SUBSET Range(order) : Cardinality(l) <= MaxLong } }

\* the workspace before the call: the destination page and, with stale, the
\* pages an earlier upload left behind
Workspace(stale) ==
    << Page(0, "destination", <<>>) >>
    \o IF stale
       THEN << Page(Destination, "db", << LineToBlock(Line("", << "old", 1 >>)) >>),
               Page(Destination, "api", <<>>) >>
       ELSE <<>>

NotionInitOn(a, stale) ==
    /\ npc = "start"
    /\ nargs = a
    /\ blocks = <<>>
    /\ page_id = 0
    /\ offset = 0
    /\ keys = <<>>
    /\ root_id = 0
    /\ urls = <<>>
    /\ pages = Workspace(stale)
    /\ requests = <<>>
    /\ nresult = <<>>
    /\ JsonIdle
    /\ ConfigIdle
    /\ MainIdle
    /\ rpc = "idle"
    /\ routesDirExists = FALSE
    /\ routeDir = {}
    /\ rqueue = <<>>
    /\ route_file = [ stem |-> "", content |-> <<>> ]
    /\ routes_in_file = <<>>
    /\ routes = <<>>
    /\ pc = "idle"
    /\ dirExists = FALSE
    /\ directory = {}
    /\ queue = <<>>
    /\ migration_file = ""
    /\ pending = <<>>
    /\ table_name = ""
    /\ ops = <<>>
    /\ op = Op("", "", "")
    /\ table_schemas = <<>>
    /\ table_indexes = <<>>
    /\ table_fks = <<>>
    /\ table_files = <<>>
    /\ result = <<>>

UploadArgs(method, md, parts, title) ==
    [ method |-> method, markdown |-> md, parts |-> parts, title |-> title ]

NotionInit ==
    \E stale \in BOOLEAN :
        \/ \E md \in Markdowns :
              NotionInitOn(UploadArgs("upload_markdown", md, <<>>, "spec"), stale)
        \/ \E parts \in PartDicts,
              method \in { "upload_hierarchy", "upload_hierarchy_flat" } :
              NotionInitOn(UploadArgs(method, <<>>, parts, "spec"), stale)

NotionSpec == NotionInit /\ [][NotionNext]_vars

(***************************************************************************)
(* C22: upload_markdown delivers every block exactly once and in order.     *)
(* The page is created with the first min(n, 100) blocks, the rest is       *)
(* appended to that same page in consecutive batches of at most 100 blocks  *)
(* (ceil((n-100)/100) append calls when n > 100, none otherwise), no batch  *)
(* exceeds 100 blocks, and the returned value is the created page's URL.    *)
(***************************************************************************)
Appends == SelectSeq(requests, LAMBDA r : r.op = "append")

Creates == SelectSeq(requests, LAMBDA r : r.op = "create")

\* ceil(a / b)
CeilDiv(a, b) == (a + b - 1) \div b

C22_UploadMarkdown ==
    (nargs.method = "upload_markdown" /\ npc \in { "append", "done", "raised" }) =>
        LET n == Len(MarkdownToBlocks(nargs.markdown))
            page == IF Creates = <<>> THEN 0 ELSE Len(pages)
        IN /\ Len(Creates) <= 1
           /\ \A i \in 1..Len(requests) : requests[i].size <= BlockLimit
           /\ Creates = <<>> => Appends = <<>> /\ npc = "raised"
           /\ Creates # <<>> =>
                 /\ Creates[1] = Request("create", Destination, Min(n, BlockLimit))
                 /\ requests[1].op = "create"
                 /\ pages[page].parent = Destination
                 /\ \A i \in 1..Len(Appends) : Appends[i].page = page
                 \* what has been delivered is a prefix of the blocks, in order
                 /\ pages[page].children =
                       SubSeq(MarkdownToBlocks(nargs.markdown), 1,
                              Min(n, BlockLimit * (1 + Len(Appends))))
                 \* no other page of the workspace has changed
                 /\ \A id \in 1..Len(pages) :
                       id # page => pages[id] \in Range(Workspace(TRUE))
           /\ npc = "done" =>
                 /\ pages[page].children = MarkdownToBlocks(nargs.markdown)
                 /\ Len(Appends) = IF n > BlockLimit
                                   THEN CeilDiv(n - BlockLimit, BlockLimit)
                                   ELSE 0
                 /\ nresult = Url(page)

\* a document of more than 200 blocks has been delivered in three requests,
\* the last one shorter than the others
C22_Witness ==
    /\ nargs.method = "upload_markdown"
    /\ npc = "done"
    /\ Len(blocks) > 2 * BlockLimit
    /\ Len(Appends) = 2
    /\ Appends[2].size < BlockLimit

(***************************************************************************)
(* C23: upload_hierarchy first creates one parent page with an empty body   *)
(* under the destination, then creates the child pages under that parent,   *)
(* never under the destination, in the fixed order overview, db, api,       *)
(* security, graphql, one per section present in parts and none for a       *)
(* section that is absent, and returns the parent page's URL.               *)
(***************************************************************************)
\* the sections of parts, in the order of the child pages
PresentSections == SelectSeq(order, LAMBDA k : DictHas(nargs.parts, k))

\* the titles of the pages created after the parent page, in creation order
ChildTitles == [ i \in 1..(Len(pages) - root_id) |-> pages[root_id + i].title ]

C23_HierarchyOrder ==
    (nargs.method = "upload_hierarchy" /\ npc # "start") =>
        /\ Creates = <<>> => npc = "raised" /\ root_id = 0
        /\ Creates # <<>> =>
              /\ requests[1] = Request("create", Destination, 0)
              /\ pages[root_id] = Page(Destination, nargs.title, <<>>)
              /\ \A i \in 2..Len(Creates) : Creates[i].page = root_id
              /\ \A id \in (root_id + 1)..Len(pages) : pages[id].parent = root_id
              /\ Len(Creates) = 1 + Len(ChildTitles)
              /\ IsPrefix(ChildTitles, PresentSections)
        /\ npc = "done" =>
              /\ ChildTitles = PresentSections
              /\ nresult = Url(root_id)

\* a finished upload of parts without db and security and with a key
\* the method does not know: three child pages
C23_Witness ==
    /\ nargs.method = "upload_hierarchy"
    /\ npc = "done"
    /\ DictHas(nargs.parts, "misc")
    /\ ChildTitles = << "overview", "api", "graphql" >>

(***************************************************************************)
(* generate_json of AIBackend (ai_backend.py) and of AIClient               *)
(* (ai_client.py).  A text is the sequence of its characters.  The JSON     *)
(* values the model's json.loads knows are {} (white space allowed between  *)
(* the braces), 1, and a string without quote or line break inside; white   *)
(* space around a value is allowed.                                         *)
(***************************************************************************)
\* the backtick character
Backtick == "backtick"

Fence == << Backtick, Backtick, Backtick >>

FenceJson == Fence \o << "j", "s", "o", "n" >>

\* text[:500]
ExcerptLimit == 500

\* str.find: the 1-based position of the first occurrence, 0 when none
FindStr(t, pat) ==
    LET at == { i \in 1..(Len(t) - Len(pat) + 1) : SubSeq(t, i, i + Len(pat) - 1) = pat }
    IN IF at = {} THEN 0 ELSE CHOOSE i \in at : \A j \in at : i <= j

\* str.rfind: the 1-based position of the last occurrence, 0 when none
RFindStr(t, pat) ==
    LET at == { i \in 1..(Len(t) - Len(pat) + 1) : SubSeq(t, i, i + Len(pat) - 1) = pat }
    IN IF at = {} THEN 0 ELSE CHOOSE i \in at : \A j \in at : j <= i

StartsWith(t, pat) == Len(pat) <= Len(t) /\ SubSeq(t, 1, Len(pat)) = pat

EndsWith(t, pat) ==
    Len(pat) <= Len(t) /\ SubSeq(t, Len(t) - Len(pat) + 1, Len(t)) = pat

WhiteSpace == { "\n", " " }

\* str.strip
Strip(t) ==
    LET solid == { i \in 1..Len(t) : t[i] \notin WhiteSpace }
    IN IF solid = {} THEN <<>>
       ELSE SubSeq(t, CHOOSE i \in solid : \A j \in solid : i <= j,
                      CHOOSE i \in solid : \A j \in solid : j <= i)

\* the positions of the line breaks of t, then the position after its end
Breaks(t) == { i \in 1..Len(t) : t[i] = "\n" } \cup { Len(t) + 1 }

\* text.split('\n')
SplitLines(t) ==
    LET RECURSIVE From(_)
        From(i) ==
            LET b == CHOOSE j \in Breaks(t) : j >= i /\ \A k \in Breaks(t) : k >= i => j <= k
            IN << SubSeq(t, i, b - 1) >> \o (IF b > Len(t) THEN <<>> ELSE From(b + 1))
    IN From(1)

\* '\n'.join(lines)
JoinLines(ls) ==
    LET RECURSIVE J(_)
        J(i) == IF i > Len(ls) THEN <<>>
                ELSE IF i = Len(ls) THEN ls[i]
                ELSE ls[i] \o << "\n" >> \o J(i + 1)
    IN J(1)

\* lines[1:-1]
InnerLines(ls) == SubSeq(ls, 2, Len(ls) - 1)

\* ai_backend.py lines 27-34
UnwrapBackend(t) ==
    IF FindStr(t, FenceJson) # 0
    THEN \* start = find + 7, end = rfind(fence), text[start:end].strip()
         Strip(SubSeq(t, FindStr(t, FenceJson) + 7, RFindStr(t, Fence) - 1))
    ELSE IF StartsWith(t, Fence)
    THEN JoinLines(InnerLines(SplitLines(t)))
    ELSE t

\* ai_client.py lines 58-61
UnwrapClient(t) ==
    IF StartsWith(t, Fence)
    THEN JoinLines(InnerLines(SplitLines(t)))
    ELSE t

\* faulty variant: the text is parsed as it came
UnwrapNothing(impl, t) == t

Unwrap(impl, t) == IF impl = "AIBackend" THEN UnwrapBackend(t) ELSE UnwrapClient(t)

\* json.loads accepts the text
IsJson(t) ==
    LET s == Strip(t)
    IN \/ s = << "1" >>
       \/ /\ Len(s) >= 2
          /\ s[1] = "{"
          /\ s[Len(s)] = "}"
          /\ \A i \in 2..(Len(s) - 1) : s[i] \in WhiteSpace
       \/ /\ Len(s) >= 2
          /\ s[1] = "\""
          /\ s[Len(s)] = "\""
          /\ \A i \in 2..(Len(s) - 1) : s[i] \notin { "\"", "\n" }

\* the value json.loads returns, written as its text without the white
\* space json.loads skips
Loaded(t) == SelectSeq(Strip(t), LAMBDA c : c \notin WhiteSpace \/ Strip(t)[1] = "\"")

\* text[:500]
Excerpt(t) == SubSeq(t, 1, Min(ExcerptLimit, Len(t)))

\* ai_backend.py line 25, ai_client.py line 56: text = self.generate(prompt)
GenerateText ==
    /\ gpc = "start"
    /\ json_text' = response
    /\ gpc' = "unwrap"
    /\ UNCHANGED << client, response, outcome >>
    /\ UNCHANGED << migVars, routeVars, mainVars, notionVars, configVars >>

\* ai_backend.py lines 27-34, ai_client.py lines 58-61
UnwrapFence ==
    /\ gpc = "unwrap"
    /\ json_text' = Unwrap(client, json_text)
    /\ gpc' = "loads"
    /\ UNCHANGED << client, response, outcome >>
    /\ UNCHANGED << migVars, routeVars, mainVars, notionVars, configVars >>

\* ai_backend.py lines 36-39, ai_client.py lines 63-66
Loads ==
    /\ gpc = "loads"
    /\ outcome' = IF IsJson(json_text)
                  THEN [ kind |-> "value", value |-> Loaded(json_text) ]
                  ELSE [ kind |-> "ValueError", value |-> Excerpt(json_text) ]
    /\ gpc' = "done"
    /\ UNCHANGED << client, response, json_text >>
    /\ UNCHANGED << migVars, routeVars, mainVars, notionVars, configVars >>

JsonNext ==
    \/ GenerateText
    \/ UnwrapFence
    \/ Loads

(***************************************************************************)
(* Inputs: responses built from a prologue, an opening fence, a body, a     *)
(* closing fence and an epilogue, and long responses                        *)
(***************************************************************************)
\* length of the longest response without JSON in it
MaxChars == 502

Quoted(s) == << "\"" >> \o s \o << "\"" >>

JsonBodies ==
    { << "{", "}" >>, << "{", "\n", "}" >>, << "1" >>, Quoted(<< "x" >>),
      Quoted(FenceJson), Quoted(Fence) }

OtherBodies == { <<>>, << "x" >>, << "{" >>, << "{", "}", "x" >> }

Openings ==
    { <<>>, Fence, Fence \o << "\n" >>, FenceJson, FenceJson \o << "\n" >>,
      Fence \o << "x", "\n" >> }

Closings == { <<>>, Fence, << "\n" >> \o Fence, << "\n" >> \o Fence \o << "\n" >> }

Prologues == { <<>>, << "x", "\n" >> }

Epilogues == { <<>>, << "\n", "x" >> }

Long(n) == [ i \in 1..n |-> "x" ]

Responses ==
    { p \o o \o b \o c \o e :
        p \in Prologues, o \in Openings, b \in JsonBodies \cup OtherBodies,
        c \in Closings, e \in Epilogues }
    \cup { Long(n) : n \in (ExcerptLimit - 2)..MaxChars }
    \cup { Fence \o << "\n" >> \o Long(n) \o << "\n" >> \o Fence :
             n \in (ExcerptLimit - 2)..MaxChars }

JsonInitOn(impl, t) ==
    /\ gpc = "start"
    /\ client = impl
    /\ response = t
    /\ json_text = <<>>
    /\ outcome = [ kind |-> "", value |-> <<>> ]
    /\ ExporterIdle
    /\ ConfigIdle
    /\ MainIdle
    /\ rpc = "idle"
    /\ routesDirExists = FALSE
    /\ routeDir = {}
    /\ rqueue = <<>>
    /\ route_file = [ stem |-> "", content |-> <<>> ]
    /\ routes_in_file = <<>>
    /\ routes = <<>>
    /\ pc = "idle"
    /\ dirExists = FALSE
    /\ directory = {}
    /\ queue = <<>>
    /\ migration_file = ""
    /\ pending = <<>>
    /\ table_name = ""
    /\ ops = <<>>
    /\ op = Op("", "", "")
    /\ table_schemas = <<>>
    /\ table_indexes = <<>>
    /\ table_fks = <<>>
    /\ table_files = <<>>
    /\ result = <<>>

JsonInit ==
    \E impl \in { "AIBackend", "AIClient" }, t \in Responses : JsonInitOn(impl, t)

JsonSpec == JsonInit /\ [][JsonNext]_vars

(***************************************************************************)
(* C24: generate_json returns the parsed JSON value for every response that *)
(* is bare JSON text or JSON text wrapped in one fenced code block (opening *)
(* fence with or without a language tag, matching closing fence); a         *)
(* raised error carries at most the first 500 characters of the text that   *)
(* failed to parse; no value is returned for text that is not JSON after    *)
(* unwrapping.                                                              *)
(***************************************************************************)
\* t is a fence line with or without a tag, lines of JSON, and a fence line
IsFencedJson(t) ==
    /\ StartsWith(t, Fence)
    /\ EndsWith(t, << "\n" >> \o Fence)
    /\ FindStr(t, << "\n" >>) < Len(t) - 3
    /\ \A i \in 4..(FindStr(t, << "\n" >>) - 1) : t[i] \notin { Backtick, "\"" }
    /\ IsJson(SubSeq(t, FindStr(t, << "\n" >>) + 1, Len(t) - 4))

FencedBody(t) == SubSeq(t, FindStr(t, << "\n" >>) + 1, Len(t) - 4)

C24_GenerateJson ==
    gpc = "done" =>
        /\ IsJson(response) =>
              outcome = [ kind |-> "value", value |-> Loaded(response) ]
        /\ IsFencedJson(response) =>
              outcome = [ kind |-> "value", value |-> Loaded(FencedBody(response)) ]
        /\ outcome.kind = "ValueError" =>
              /\ Len(outcome.value) <= ExcerptLimit
              /\ IsPrefix(outcome.value, json_text)
        /\ outcome.kind = "value" =>
              /\ IsJson(json_text)
              /\ outcome.value = Loaded(json_text)

\* the response is the JSON string made of a fence and json, and AIBackend
\* raises
C24_BareJsonRaises ==
    /\ gpc = "done"
    /\ client = "AIBackend"
    /\ response = Quoted(FenceJson)
    /\ IsJson(response)
    /\ outcome.kind = "ValueError"

(***************************************************************************)
(* C25: when --ai-backend is not given, the backend of the run is the one   *)
(* named by the environment variable AI_BACKEND, and claude-code only when  *)
(* that variable is unset; a backend name that is not known is rejected     *)
(* with an error and never mapped to a default.                             *)
(***************************************************************************)
\* the backend has been built and the generation loops run or have run
BackendBuilt == backend_name # "" /\ "ai skipped" \notin report

\* the name the run is asked to use
RequestedBackend ==
    IF args.ai_backend # None THEN args.ai_backend
    ELSE IF env.AI_BACKEND # "" THEN env.AI_BACKEND
    ELSE "claude-code"

C25_BackendSelection ==
    /\ (BackendBuilt /\ args.ai_backend = None) =>
          backend_name = Lower(RequestedBackend)
    /\ Lower(RequestedBackend) \notin KnownBackends =>
          /\ ~BackendBuilt
          /\ calls = <<>>

\* AI_BACKEND=gemini with its API key and no --ai-backend: the calls go to
\* claude-code
C25_EnvironmentIgnored ==
    /\ args.ai_backend = None
    /\ env.AI_BACKEND = "gemini"
    /\ env.api_key
    /\ backend_name = "claude-code"
    /\ calls # <<>>

(***************************************************************************)
(* Inputs: one document with one create block whose body mixes an identity  *)
(* column, two typed columns and a drop                                     *)
(***************************************************************************)
OrderStmts ==
    { Call0("id"), Call("string", "a"), Call("string", "c"), Call("dropColumn", "c") }

OrderBodies == UNION { [ 1..n -> OrderStmts ] : n \in 1..MaxStmts }

InitOrder ==
    \/ InitOn(FALSE, {})
    \/ \E body \in OrderBodies :
          InitOn(TRUE, { [ name |-> FileNames[1],
                           content |-> << Block("create", "todos", body) >> ] })

OrderSpec == InitOrder /\ [][Next]_vars

(***************************************************************************)
(* C26: within a single create/alter block the operations are applied in    *)
(* the order in which they are met in the body text, for every mix of       *)
(* shapes: string('a') then id() gives the columns [a, id] and id() then    *)
(* string('a') gives [id, a]; dropping c and then declaring c leaves c      *)
(* present, declaring c and then dropping it leaves c absent.               *)
(***************************************************************************)
\* the operations of a body read statement by statement, in text order
TextOrderOps(body) == Flatten([ i \in 1..Len(body) |-> BodyOps(<< body[i] >>) ])

\* the names of the columns left by a list of operations on a new table
ColumnsAfter(os) ==
    DictKeys(FoldOps([ schema |-> <<>>, idxs |-> <<>>, fks |-> <<>> ], os).schema)

C26_TextOrder ==
    pc = "done" =>
        \A f \in directory :
            ColumnNames(Entry("todos")) = ColumnsAfter(TextOrderOps(f.content[1].body))

\* id() then string('a'): the result lists a before id
C26_IdAfterString ==
    /\ pc = "done"
    /\ \E f \in directory : f.content[1].body = << Call0("id"), Call("string", "a") >>
    /\ ColumnNames(Entry("todos")) = << "a", "id" >>

(***************************************************************************)
(* Inputs: three documents on the table todos: the first declares columns,  *)
(* the second drops one, the third declares columns again                   *)
(***************************************************************************)
DeclStmts == { Call("string", "title"), Call("boolean", "done"), Call("text", "title") }

DeclBodies == UNION { [ 1..n -> DeclStmts ] : n \in 1..(MaxStmts - 1) }

DropBodies == { << Call("dropColumn", c) >> : c \in { "title", "done" } }

InitReAdd ==
    \/ InitOn(FALSE, {})
    \/ \E b1 \in DeclBodies, b2 \in DropBodies, b3 \in DeclBodies :
          InitOn(TRUE,
                 { [ name |-> FileNames[1],
                     content |-> << Block("create", "todos", b1) >> ],
                   [ name |-> FileNames[2],
                     content |-> << Block("table", "todos", b2) >> ],
                   [ name |-> FileNames[3],
                     content |-> << Block("table", "todos", b3) >> ] })

ReAddSpec == InitReAdd /\ [][Next]_vars

(***************************************************************************)
(* C27: a column dropped by one document and added again by a later         *)
(* document does not return to its original position: it is placed after    *)
(* every column that is present at the time of the re-add.                  *)
(***************************************************************************)
\* the document named n
FileNamed(n) == CHOOSE f \in directory : f.name = n

\* column c is declared by the first document, dropped by the second and
\* declared again by the third
ReAdded(c) ==
    /\ \E f \in directory : f.name = FileNames[3]
    /\ DocAdds(FileNamed(FileNames[1]), "todos", c)
    /\ DocDrops(FileNamed(FileNames[2]), "todos", c)
    /\ DocAdds(FileNamed(FileNames[3]), "todos", c)

\* position of column c in the result, 0 when it is not there
ColumnIndex(c) ==
    LET at == { i \in 1..Len(Entry("todos").columns) :
                  Entry("todos").columns[i].name = c }
    IN IF at = {} THEN 0 ELSE CHOOSE i \in at : TRUE

C27_Placed ==
    pc = "done" =>
        \A c \in Columns :
            ReAdded(c) =>
                /\ ColumnIndex(c) > 0
                \* the columns that were there when c came back are before it
                /\ \A d \in Columns \ { c } :
                      (DocAdds(FileNamed(FileNames[1]), "todos", d)) =>
                          /\ ColumnIndex(d) > 0
                          /\ ColumnIndex(d) < ColumnIndex(c)

C27_Step ==
    (pc = "loop" /\ ops # <<>>) =>
        LET o == Head(ops)
            old == DictGet(table_schemas, table_name)
            new == DictGet(table_schemas', table_name)
        IN (IsColumnAdd(o) /\ ~DictHas(old, o.name)) =>
               new = Append(old, [ k |-> o.name, v |-> o.type ])

C27_ReAddGoesLast == []C27_Placed /\ [][C27_Step]_vars

\* title was declared before done, dropped, and declared again: it is now
\* after done
C27_Witness ==
    /\ pc = "done"
    /\ ReAdded("title")
    /\ FileNamed(FileNames[1]).content[1].body =
          << Call("string", "title"), Call("boolean", "done") >>
    /\ ColumnNames(Entry("todos")) = << "done", "title" >>

(***************************************************************************)
(* Inputs: one group block with middleware and prefix whose body holds      *)
(* plain declarations, a declaration with an inline handler and a group     *)
(* written inside the block, followed or not by an ungrouped declaration.   *)
(***************************************************************************)
Ping == RouteDecl("get", << "/", "ping" >>, Closure, NoMw)

Orders == RouteDecl("get", << "/", "orders" >>, Tuple("OrderController", "index"), NoMw)

\* Route::prefix('v1') group(function () { Route::get('/health', ...); });
Inner == Group(<< WithPrefix(<< "v1" >>) >>, " ", << Health >>)

BlockItems == { Users, Ping, Inner }

Blocks ==
    { Group(<< WithMiddleware(MwArgs(<< "auth" >>)), WithPrefix(<< "api" >>) >>, " ", b) :
        b \in UNION { [ 1..n -> BlockItems ] : n \in 0..MaxItems } }

NestDocs == { << g >> \o t : g \in Blocks, t \in { <<>>, << Orders >> } }

NestInit ==
    \/ RouteInitOn(FALSE, {})
    \/ \E d \in NestDocs :
          RouteInitOn(TRUE, { [ stem |-> "api", content |-> d ] })

NestSpec == NestInit /\ [][RouteNext]_vars

\* the record of declaration it as a member of group g
Grouped(g, it) ==
    RouteOf(it, JoinPrefix(GroupPrefix(g), it.uri),
            GroupMiddleware(g) \o ParseMiddleware(it.mw))

\* what _parse_routes_with_groups added to the routes of document f
GroupedResults(f) ==
    LET out == DictGet(routes, f.stem)
    IN SubSeq(out, Len(ParseRouteFile(f.content)) + 1, Len(out))

(***************************************************************************)
(* C28: every route declared directly inside a group block is in the        *)
(* grouped results with the prefix and the middleware of that group,        *)
(* whatever else the block contains (a declaration that follows an inline   *)
(* handler or a group written inside the block included), and no route      *)
(* declared after the closing of the group is attributed to it.             *)
(***************************************************************************)
C28_GroupAttribution ==
    rpc = "done" =>
        \A f \in routeDir :
            \A i \in 1..Len(f.content) :
                LET g == f.content[i]
                IN (g.tok = "group" /\ GroupMatches(g)) =>
                      /\ \A j \in 1..Len(g.body) :
                            g.body[j].tok = "route" =>
                                Grouped(g, g.body[j]) \in Range(GroupedResults(f))
                      /\ \A k \in (i + 1)..Len(f.content) :
                            f.content[k].tok = "route" =>
                                Grouped(g, f.content[k]) \notin Range(GroupedResults(f))

\* the declaration after the inline handler is missing from the grouped
\* results, the one with the inline handler is there
C28_RouteAfterHandlerLost ==
    /\ rpc = "done"
    /\ \E f \in routeDir :
          /\ f.content[1].body = << Ping, Users >>
          /\ Grouped(f.content[1], Ping) \in Range(GroupedResults(f))
          /\ Grouped(f.content[1], Users) \notin Range(GroupedResults(f))

\* the declarations of a group written inside the block get the prefix of
\* the enclosing group only, and the declaration after it is missing
C28_RouteAfterInnerLost ==
    /\ rpc = "done"
    /\ \E f \in routeDir :
          /\ f.content[1].body = << Inner, Users >>
          /\ Grouped(f.content[1], Health) \in Range(GroupedResults(f))
          /\ Grouped(f.content[1], Users) \notin Range(GroupedResults(f))

\* the page made by the last create request among the first i requests: the
\* workspace numbers its pages in the order they are made
CreatedBefore(i) ==
    (Len(pages) - Len(Creates))
    + Cardinality({ j \in 1..i : requests[j].op = "create" })

(***************************************************************************)
(* C29: in upload_hierarchy every chunk of blocks beyond the first 100 of   *)
(* a section is appended to the child page just created for that section    *)
(* and to no other page, whatever other pages of the same title the         *)
(* workspace holds.                                                         *)
(***************************************************************************)
C29_OverflowToCreatedChild ==
    nargs.method = "upload_hierarchy" =>
        \A i \in 1..Len(requests) :
            requests[i].op = "append" => requests[i].page = CreatedBefore(i)

\* the blocks beyond the first 100 of section db went to the page titled db
\* that the workspace held before the upload
C29_AppendedToOlderPage ==
    /\ nargs.method = "upload_hierarchy"
    /\ npc = "done"
    /\ \E i \in 1..Len(requests) :
          /\ requests[i].op = "append"
          /\ requests[i].page = 2
          /\ pages[2].title = "db"
          /\ Len(pages[2].children) > 1

\* upload_hierarchy_flat takes the id of the page from the reply to the
\* create request
C29_FlatKeepsCreatedChild ==
    nargs.method = "upload_hierarchy_flat" =>
        \A i \in 1..Len(requests) :
            requests[i].op = "append" => requests[i].page = CreatedBefore(i)

(***************************************************************************)
(* parse_configs of JavaParser (plugins/java/parser.py).  The text of a     *)
(* configuration file is a sequence of words and marks: a key is words      *)
(* joined by marks, "=" and ":" are the separators, " " is white space,     *)
(* "\n" ends a line, "\\" is the backslash that continues a properties      *)
(* value on the next line and "|" opens a YAML block scalar.  A keyword is  *)
(* in a text when one of its words, in lower case, is the keyword.          *)
(***************************************************************************)
Keywords == { "password", "secret", "key", "token" }

Masked == << "***" >>

\* any(keyword in s.lower() for keyword in [...])
HasKeyword(s) == \E i \in 1..Len(s) : Lower(s[i]) \in Keywords

\* lines 459-466: one line of a properties file
PropertiesLine(properties, raw) ==
    LET line == Strip(raw)
        eq == FindStr(line, << "=" >>)
        k == SubSeq(line, 1, eq - 1)
        v == SubSeq(line, eq + 1, Len(line))
    IN IF line # <<>> /\ Head(line) # "#" /\ eq # 0
       THEN DictSet(properties, Strip(k),
                    Strip(IF HasKeyword(k) THEN Masked ELSE v))
       ELSE properties

RECURSIVE PropertiesLines(_, _)
PropertiesLines(properties, ls) ==
    IF ls = <<>> THEN properties
    ELSE PropertiesLines(PropertiesLine(properties, Head(ls)), Tail(ls))

\* lines 445-468
ParsePropertiesFile(t) == PropertiesLines(<<>>, SplitLines(t))

\* lines 484-493: one line of a YAML file
YmlLine(line) ==
    IF HasKeyword(line) /\ FindStr(line, << ":" >>) # 0
    THEN SubSeq(line, 1, FindStr(line, << ":" >>) - 1) \o << ":", " " >> \o Masked
    ELSE line

\* lines 470-495
ParseYmlFile(t) ==
    JoinLines([ i \in 1..Len(SplitLines(t)) |-> YmlLine(SplitLines(t)[i]) ])

\* the files of one type in an order rglob can yield them
Yielded(type, q) ==
    LET fs == { f \in configDir : f.type = type }
    IN /\ q \in [ 1..Cardinality(fs) -> fs ]
       /\ Range(q) = fs

\* lines 421, 429, 436: the three rglob calls, each in the order of the
\* file system
GlobConfigs ==
    /\ cpc = "start"
    /\ \E q1 \in [ 1..Cardinality({ f \in configDir : f.type = "properties" }) -> configDir ],
          q2 \in [ 1..Cardinality({ f \in configDir : f.type = "yml" }) -> configDir ],
          q3 \in [ 1..Cardinality({ f \in configDir : f.type = "yaml" }) -> configDir ] :
          /\ Yielded("properties", q1)
          /\ Yielded("yml", q2)
          /\ Yielded("yaml", q3)
          /\ cqueue' = q1 \o q2 \o q3
    /\ cpc' = "loop"
    /\ UNCHANGED << configDir, configs >>
    /\ UNCHANGED << migVars, routeVars, mainVars, notionVars, jsonVars >>

\* lines 421-426
AppendProperties ==
    /\ cpc = "loop"
    /\ cqueue # <<>>
    /\ Head(cqueue).type = "properties"
    /\ configs' = Append(configs,
                         [ file |-> Head(cqueue).file, type |-> "properties",
                           content |-> ParsePropertiesFile(Head(cqueue).text) ])
    /\ cqueue' = Tail(cqueue)
    /\ UNCHANGED << cpc, configDir >>
    /\ UNCHANGED << migVars, routeVars, mainVars, notionVars, jsonVars >>

\* lines 429-434 and 436-441
AppendYml ==
    /\ cpc = "loop"
    /\ cqueue # <<>>
    /\ Head(cqueue).type \in { "yml", "yaml" }
    /\ configs' = Append(configs,
                         [ file |-> Head(cqueue).file, type |-> Head(cqueue).type,
                           content |-> ParseYmlFile(Head(cqueue).text) ])
    /\ cqueue' = Tail(cqueue)
    /\ UNCHANGED << cpc, configDir >>
    /\ UNCHANGED << migVars, routeVars, mainVars, notionVars, jsonVars >>

\* line 443
ReturnConfigs ==
    /\ cpc = "loop"
    /\ cqueue = <<>>
    /\ cpc' = "done"
    /\ UNCHANGED << configDir, cqueue, configs >>
    /\ UNCHANGED << migVars, routeVars, mainVars, notionVars, jsonVars >>

ConfigNext ==
    \/ GlobConfigs
    \/ AppendProperties
    \/ AppendYml
    \/ ReturnConfigs

(***************************************************************************)
(* Inputs: two files of one type with the same keys, written from lists of  *)
(* settings.  A setting is a key and the lines of its value; a value of     *)
(* more than one line is written with a backslash at the end of every line  *)
(* but the last in a properties file and as a block scalar in a YAML file.  *)
(***************************************************************************)
MaxSettings == 2

Setting(key, val) == [ key |-> key, val |-> val ]

SettingKeys ==
    { << "db", ".", "url" >>, << "db", ".", "password" >>, << "API", "_", "KEY" >> }

PlainValues == { << << "a" >> >> }

\* s1, s2, and s1 continued by a line that ends with = signs
SecretValues == { << << "s1" >> >>, << << "s2" >> >>, << << "s1" >>, << "s2", "=", "=" >> >> }

Settings ==
    { Setting(k, v) : k \in { k \in SettingKeys : ~HasKeyword(k) }, v \in PlainValues }
    \cup { Setting(k, v) : k \in { k \in SettingKeys : HasKeyword(k) }, v \in SecretValues }

SettingLists == UNION { [ 1..n -> Settings ] : n \in 1..MaxSettings }

\* the lines of one setting in a properties file
PropertiesText(e) ==
    LET n == Len(e.val)
    IN [ i \in 1..n |->
           (IF i = 1 THEN e.key \o << "=" >> ELSE << " ", " " >>)
           \o e.val[i]
           \o (IF i < n THEN << "\\" >> ELSE <<>>) ]

\* the lines of one setting in a YAML file
YmlText(e) ==
    IF Len(e.val) = 1 THEN << e.key \o << ":", " " >> \o e.val[1] >>
    ELSE << e.key \o << ":", " ", "|" >> >>
         \o [ i \in 1..Len(e.val) |-> << " ", " " >> \o e.val[i] ]

ConfigFile(name, type, es) ==
    [ file |-> name, type |-> type, settings |-> es,
      text |-> JoinLines(Flatten([ i \in 1..Len(es) |->
                   IF type = "properties" THEN PropertiesText(es[i])
                   ELSE YmlText(es[i]) ])) ]

\* the two lists differ only in the values of the keys with a keyword
DifferInSecretsOnly(es1, es2) ==
    /\ Len(es1) = Len(es2)
    /\ \A i \in 1..Len(es1) :
          /\ es1[i].key = es2[i].key
          /\ ~HasKeyword(es1[i].key) => es1[i].val = es2[i].val

ConfigInitOn(dir) ==
    /\ cpc = "start"
    /\ configDir = dir
    /\ cqueue = <<>>
    /\ configs = <<>>
    /\ ExporterIdle
    /\ JsonIdle
    /\ MainIdle
    /\ rpc = "idle"
    /\ routesDirExists = FALSE
    /\ routeDir = {}
    /\ rqueue = <<>>
    /\ route_file = [ stem |-> "", content |-> <<>> ]
    /\ routes_in_file = <<>>
    /\ routes = <<>>
    /\ pc = "idle"
    /\ dirExists = FALSE
    /\ directory = {}
    /\ queue = <<>>
    /\ migration_file = ""
    /\ pending = <<>>
    /\ table_name = ""
    /\ ops = <<>>
    /\ op = Op("", "", "")
    /\ table_schemas = <<>>
    /\ table_indexes = <<>>
    /\ table_fks = <<>>
    /\ table_files = <<>>
    /\ result = <<>>

ConfigInit ==
    \E type \in { "properties", "yml", "yaml" }, es1 \in SettingLists, es2 \in SettingLists :
        /\ DifferInSecretsOnly(es1, es2)
        /\ ConfigInitOn({ ConfigFile("application", type, es1),
                          ConfigFile("application-prod", type, es2) })

ConfigSpec == ConfigInit /\ [][ConfigNext]_vars

\* the file a returned configuration was read from
SourceOf(c) == CHOOSE f \in configDir : f.file = c.file

\* the words of the values the file gives to keys with a keyword
SecretWords(f) ==
    UNION { UNION { Range(f.settings[i].val[j]) \ { "=" } :
                      j \in 1..Len(f.settings[i].val) } :
              i \in { i \in 1..Len(f.settings) : HasKeyword(f.settings[i].key) } }

\* the words of a returned content
ContentWords(c) ==
    IF c.type = "properties"
    THEN UNION { Range(c.content[i].k) \cup Range(c.content[i].v) :
                   i \in 1..Len(c.content) }
    ELSE Range(c.content)

(***************************************************************************)
(* C30: for two properties (or YAML) files that differ only in the values   *)
(* of the keys whose name contains password, secret, key or token in any    *)
(* case, parse_configs returns the same content, and no such value is in    *)
(* the returned content, the lines that continue a value after the key      *)
(* line included.                                                           *)
(***************************************************************************)
C30_MaskingNonInterference ==
    cpc = "done" =>
        /\ \A i \in 1..Len(configs), j \in 1..Len(configs) :
              DifferInSecretsOnly(SourceOf(configs[i]).settings,
                                  SourceOf(configs[j]).settings) =>
                  configs[i].content = configs[j].content
        /\ \A i \in 1..Len(configs) :
              SecretWords(SourceOf(configs[i])) \cap ContentWords(configs[i]) = {}

\* a block scalar under a key with a keyword: the key line is masked and the
\* lines of the value are returned as they are
C30_BlockScalarReturned ==
    /\ cpc = "done"
    /\ \E i \in 1..Len(configs) :
          /\ configs[i].type = "yml"
          /\ SourceOf(configs[i]).settings =
                << Setting(<< "db", ".", "password" >>, << << "s1" >>, << "s2", "=", "=" >> >>) >>
          /\ IsPrefix(<< "db", ".", "password", ":", " ", "***", "\n" >>, configs[i].content)
          /\ { "s1", "s2" } \subseteq Range(configs[i].content)

\* a properties value continued on a line with an = sign: the continuation
\* is returned as a key of its own
C30_ContinuationReturned ==
    /\ cpc = "done"
    /\ \E i \in 1..Len(configs) :
          /\ configs[i].type = "properties"
          /\ DictHas(configs[i].content, << "s2" >>)
          /\ DictHas(configs[i].content, << "db", ".", "password" >>)
          /\ DictGet(configs[i].content, << "db", ".", "password" >>) = Masked

\* values written on the key line only are masked in both formats
C30_KeyLineMasked ==
    cpc = "done" =>
        \A i \in 1..Len(configs) :
            (\A k \in 1..Len(SourceOf(configs[i]).settings) :
                 Len(SourceOf(configs[i]).settings[k].val) = 1) =>
                SecretWords(SourceOf(configs[i])) \cap ContentWords(configs[i]) = {}

====
